---- MODULE Spec2Model ----
(***************************************************************************)
(* Voucher ledger and prize draw engine of the slot API                    *)
(* (src/api/vouchers.py, src/api/prizes.py).                               *)
(*                                                                         *)
(* The relational store is modelled by three tables: vouchers (a sequence  *)
(* indexed by the autoincrement id), inventory (prize_remaining, a         *)
(* function whose domain is the set of prize ids that have a row) and wins *)
(* (prize_wins, append-only).  Spec runs the voucher handlers one at a     *)
(* time, each as one step; SpecDraw does the same for the draw and the     *)
(* inventory handlers.  SpecConc runs the handlers as the sessions they    *)
(* are: the SELECTs of a handler and its commit are separate steps of a    *)
(* worker, so that requests of different workers interleave.               *)
(***************************************************************************)
EXTENDS Integers, Sequences, FiniteSets, TLC

\* ---- bounds of the model ----
NumUsers == 2          \* user ids 1..NumUsers
NumAdmins == 1         \* issuing admins 1..NumAdmins
MaxGames == 2          \* total_games and count parameters: 1..MaxGames
MaxCode == 3           \* voucher codes are drawn from 1..MaxCode
MaxVouchers == 2       \* voucher rows
NumPrizes == 2         \* prize ids 1..NumPrizes
MaxRemaining == 2      \* inventory counts: 0..MaxRemaining
MaxWeight == 1         \* prize weights 0..MaxWeight
PickScale == 4         \* random.random() takes the values r / PickScale
MaxClock == 2          \* the wall clock takes the values 1..MaxClock
MaxRequests == 3       \* requests handled in one run
InitRows == 2          \* voucher rows in the initial store
NumWorkers == 2        \* concurrent request workers of SpecConc
SyncRequests == 2      \* requests of other clients beside run_voucher_sync
MaxFaults == 1         \* failed calls of the store and the chat in one run
MaxMsg == 6            \* message ids the chat hands out: 1..MaxMsg
NumSockets == 2        \* WebSocket connections
MaxOps == 2            \* player operations in one run
MaxTracks == 3         \* rows of spotify_tracks: ids 1..MaxTracks
MaxVersion == 4        \* ctrl.version in the runs of the player: 0..MaxVersion
NumTokens == 2         \* token values 1..NumTokens; token 1 is stored
MaxHttp == 2           \* HTTP requests through auth_middleware in one run
MaxNow == 4            \* the scheduler's clock takes the values 1..MaxNow
NumGroups == 2         \* group chats 1..NumGroups
MaxIters == 3          \* iterations of the tracks-closure scheduler in one run
MaxConfirms == 2       \* close times confirmed by the admin in one run
NumPhotos == 2         \* file_unique_id values 1..NumPhotos
NumHandlers == 2       \* group-photo handlers that can run at the same time
MaxPhotoMsgs == 3      \* photo messages handled in one run
NumChatUsers == 2      \* users talking to the bot in private chats
NumSpotifyIds == 2     \* Spotify track ids 1..NumSpotifyIds

NULL == 0

Users == 1..NumUsers
Admins == 1..NumAdmins
Codes == 1..MaxCode
Prizes == 1..NumPrizes
Workers == 1..NumWorkers
GamesInputs == 1..MaxGames

VARIABLES
    vouchers,     \* table vouchers: Seq of rows, id = index
    inventory,    \* table prize_remaining: [subset of Prizes -> Int]
    weight,       \* column prizes.weight
    wins,         \* table prize_wins: Seq of rows
    clock,        \* datetime.now / current_timestamp
    dialect,      \* s.bind.dialect.name
    start,        \* the vouchers and inventory tables as the run began
    last,         \* the request handled last and its response
    workers,      \* SpecConc: each worker's request and open session
    settings,     \* table settings, the keys voucher_dm_<user>: key -> stored value
    sent,         \* the voucher messages the chat has delivered
    nextMsg,      \* the message_id the chat gives to the next message
    loop,         \* run_voucher_sync: its position and local variables
    log,          \* the chat calls and store writes of the current iteration
    faults,       \* the calls that have failed so far
    seen,         \* the requests handled as the last two iterations ended
    ctrl,         \* app.state.player: playing, version, clients
    lock,         \* ctrl.lock: the task that holds it, or NULL
    socks,        \* the WebSocket connections: state and messages received
    bc,           \* _broadcast_player_state: the call in progress
    deck,         \* app.state.player: index and playlist
    tracks,       \* table spotify_tracks: the ids of its rows
    reply,        \* the player operation handled last and what it sent
    sched,        \* run_tracks_closure_scheduler, its settings keys and the clock
    photos,       \* the photos plugin: its in-flight and processed sets
    conv,         \* the tracks plugin: conversation states and timeout tasks
    auth          \* auth_middleware: the tokens and the request checked last

ledgervars == <<vouchers, inventory, weight, wins, clock, dialect, start, last, workers>>

syncvars == <<settings, sent, nextMsg, loop, log, faults, seen>>

wsvars == <<ctrl, lock, socks, bc>>

playervars == <<deck, tracks, reply>>

\* The variables of the bot's plugins and schedulers
restvars == <<sched, photos, conv, auth>>

othervars == <<playervars, restvars>>

vars == <<ledgervars, syncvars, wsvars, othervars>>

\* ---------------------------------------------------------------------
\* Rows
\* ---------------------------------------------------------------------
VoucherRow(code, user_id, issued_by, created_at, total_games) ==
    [code |-> code, user_id |-> user_id, issued_by |-> issued_by,
     created_at |-> created_at, used_at |-> NULL,
     use_count |-> 0, total_games |-> total_games]

\* A row whose code is available for reuse (user_id NULL), unplayed.
ReleasedRow(code) ==
    [code |-> code, user_id |-> NULL, issued_by |-> NULL,
     created_at |-> 1, used_at |-> NULL, use_count |-> 0, total_games |-> 1]

\* A row issued to user 1 for one game, unplayed.
IssuedRow(code) == VoucherRow(code, 1, NULL, 1, 1)

Ids(vs) == DOMAIN vs

UsedCodes(vs) == {vs[i].code : i \in Ids(vs)}

\* The UPDATE a session flushes for a row it loaded as snap and changed to
\* new: only the columns whose value differs from the loaded one are SET.
Flush(cur, snap, new) ==
    [f \in DOMAIN cur |-> IF new[f] # snap[f] THEN new[f] ELSE cur[f]]

\* ---------------------------------------------------------------------
\* Voucher ledger: the queries and row changes of src/api/vouchers.py
\* ---------------------------------------------------------------------

\* .where(user_id IS NULL).where(use_count < total_games)
AvailableWithGames(vs) ==
    {i \in Ids(vs) : vs[i].user_id = NULL /\ vs[i].use_count < vs[i].total_games}

\* .order_by(created_at.asc(), id.asc()).limit(1)
OldestCreated(vs, S) ==
    CHOOSE i \in S : \A j \in S :
        \/ vs[i].created_at < vs[j].created_at
        \/ vs[i].created_at = vs[j].created_at /\ i <= j

\* .where(use_count >= total_games)
Exhausted(vs) ==
    {i \in Ids(vs) : vs[i].use_count >= vs[i].total_games}

\* used_at.asc().nullsfirst(): a NULL used_at sorts before every timestamp
UsedBefore(a, b) ==
    IF a = NULL THEN b # NULL
    ELSE b # NULL /\ a < b

\* Mutant: the exhausted rows ordered by id alone
LowestId(vs, S) == CHOOSE i \in S : \A j \in S : i <= j

\* .order_by(used_at.asc().nullsfirst(), id.asc()).limit(1)
OldestUsed(vs, S) ==
    CHOOSE i \in S : \A j \in S :
        \/ UsedBefore(vs[i].used_at, vs[j].used_at)
        \/ vs[i].used_at = vs[j].used_at /\ i <= j

\* The first SELECT of _issue_voucher_for_user: the id found, or NULL
AvailableQuery(vs) ==
    IF AvailableWithGames(vs) = {} THEN NULL
    ELSE OldestCreated(vs, AvailableWithGames(vs))

\* The second SELECT of _issue_voucher_for_user: the id found, or NULL
ExhaustedQuery(vs) ==
    IF Exhausted(vs) = {} THEN NULL
    ELSE OldestUsed(vs, Exhausted(vs))

\* Mutant: the reassignment without the reset of use_count
ReassignKeepingCount(row, user_id, issued_by, total_games) ==
    [row EXCEPT !.user_id = user_id,
                !.issued_by = IF issued_by # NULL THEN issued_by ELSE @,
                !.total_games = total_games,
                !.used_at = NULL]

\* The assignments that hand a loaded row to a user
Reassign(row, user_id, issued_by, total_games) ==
    [row EXCEPT !.user_id = user_id,
                !.issued_by = IF issued_by # NULL THEN issued_by ELSE @,
                !.use_count = 0,
                !.total_games = total_games,
                !.used_at = NULL]

\* The query parameters of PUT /{voucher_id}/count: add, else decrease, else set
AdjustTotal(total_games, kind, n) ==
    CASE kind = "add" -> total_games + n
      [] kind = "decrease" -> total_games - n
      [] kind = "set" -> n
      [] OTHER -> total_games

CountKinds == {"add", "decrease", "set", "none"}

\* SELECT ... WHERE code = :code (code is unique): the id found, or NULL
ByCode(vs, code) ==
    IF \E i \in Ids(vs) : vs[i].code = code
    THEN CHOOSE i \in Ids(vs) : vs[i].code = code
    ELSE NULL

\* Mutant: the exhaustion check off by one
NoRemainingGamesStrict(row) == row.use_count > row.total_games

\* use_count >= total_games: "Voucher has no remaining games"
NoRemainingGames(row) == row.use_count >= row.total_games

\* v.use_count += 1; v.used_at = now
Played(row, now) ==
    [row EXCEPT !.use_count = @ + 1, !.used_at = now]

\* What the model keeps of a request: its input (arg: the voucher id, code or
\* prize id of the path or body; user_id, total_games: the body of an issue)
\* and its response (status; id: the voucher row it answers with; prize).
Request(op, arg, user_id, total_games, status, id, prize) ==
    [seq |-> last.seq + 1, op |-> op, arg |-> arg, user_id |-> user_id,
     total_games |-> total_games, status |-> status, id |-> id, prize |-> prize]

Response(op, arg, status, id) == Request(op, arg, NULL, 0, status, id, NULL)

IssueResponse(user_id, total_games, status, id) ==
    Request("issue", NULL, user_id, total_games, status, id, NULL)

\* ---------------------------------------------------------------------
\* The handlers, one request at a time (each handler is one step)
\* ---------------------------------------------------------------------
Idle == \A w \in Workers : workers[w].pc = "idle"

CanHandle == last.seq < MaxRequests /\ Idle

\* POST /slot/voucher
create_voucher(user_id, issued_by, total_games) ==
    /\ CanHandle
    /\ LET a == AvailableQuery(vouchers)
           e == ExhaustedQuery(vouchers)
           id == IF a # NULL THEN a ELSE e
       IN IF id # NULL
          THEN /\ vouchers' = [vouchers EXCEPT ![id] =
                      Flush(@, @, Reassign(@, user_id, issued_by, total_games))]
               /\ last' = IssueResponse(user_id, total_games, 201, id)
          ELSE \/ /\ Len(vouchers) < MaxVouchers
                  /\ \E code \in Codes \ UsedCodes(vouchers) :
                        vouchers' = Append(vouchers,
                            VoucherRow(code, user_id, issued_by, clock, total_games))
                  /\ last' = IssueResponse(user_id, total_games, 201, Len(vouchers) + 1)
               \/ \* every generated code hit the unique constraint
                  /\ UsedCodes(vouchers) # {}
                  /\ vouchers' = vouchers
                  /\ last' = IssueResponse(user_id, total_games, 500, NULL)
    /\ UNCHANGED <<inventory, weight, wins, clock, dialect, start, workers, syncvars, wsvars, othervars>>

\* PUT /slot/voucher/{voucher_id}/count
set_voucher_count(voucher_id, kind, n) ==
    /\ CanHandle
    /\ IF voucher_id \notin Ids(vouchers)
       THEN /\ vouchers' = vouchers
            /\ last' = Response("count", voucher_id, 404, NULL)
       ELSE /\ vouchers' = [vouchers EXCEPT ![voucher_id] =
                   Flush(@, @, [@ EXCEPT !.total_games = AdjustTotal(@, kind, n)])]
            /\ last' = Response("count", voucher_id, 200, voucher_id)
    /\ UNCHANGED <<inventory, weight, wins, clock, dialect, start, workers, syncvars, wsvars, othervars>>

\* PUT /slot/voucher/{voucher_id}/play
play_game(voucher_id) ==
    /\ CanHandle
    /\ IF voucher_id \notin Ids(vouchers)
       THEN /\ vouchers' = vouchers
            /\ last' = Response("play", voucher_id, 404, NULL)
       ELSE IF NoRemainingGames(vouchers[voucher_id])
       THEN /\ vouchers' = vouchers
            /\ last' = Response("play", voucher_id, 400, voucher_id)
       ELSE /\ vouchers' = [vouchers EXCEPT ![voucher_id] =
                   Flush(@, @, Played(@, clock))]
            /\ last' = Response("play", voucher_id, 200, voucher_id)
    /\ UNCHANGED <<inventory, weight, wins, clock, dialect, start, workers, syncvars, wsvars, othervars>>

\* POST /slot/voucher/used (deprecated); code NULL stands for a blank code
mark_voucher_used(code) ==
    /\ CanHandle
    /\ LET id == ByCode(vouchers, code)
       IN IF code = NULL
          THEN /\ vouchers' = vouchers
               /\ last' = Response("used", code, 422, NULL)
          ELSE IF id = NULL
          THEN /\ vouchers' = vouchers
               /\ last' = Response("used", code, 404, NULL)
          ELSE IF NoRemainingGames(vouchers[id])
          THEN /\ vouchers' = vouchers
               /\ last' = Response("used", code, 400, id)
          ELSE /\ vouchers' = [vouchers EXCEPT ![id] = Flush(@, @, Played(@, clock))]
               /\ last' = Response("used", code, 200, id)
    /\ UNCHANGED <<inventory, weight, wins, clock, dialect, start, workers, syncvars, wsvars, othervars>>

\* ---------------------------------------------------------------------
\* Prize draw engine: src/api/prizes.py
\* ---------------------------------------------------------------------
Max(a, b) == IF a >= b THEN a ELSE b

SeqSum(q) ==
    LET RECURSIVE Sum(_)
        Sum(k) == IF k = 0 THEN 0 ELSE q[k] + Sum(k - 1)
    IN Sum(Len(q))

\* Mutant: the candidate query without its filter on remaining
AllInventoryRows(inv) == DOMAIN inv

\* select(Prize, PrizeRemaining).join(...).where(PrizeRemaining.remaining > 0)
Candidates(inv) == {p \in DOMAIN inv : inv[p] > 0}

\* The orders in which the SELECT (it has no ORDER BY) may return the rows
RowOrders(S) ==
    {q \in [1..Cardinality(S) -> S] : \A i, j \in DOMAIN q : q[i] = q[j] => i = j}

\* max(0.0, w) * max(0, r) of one (prize, remaining) pair
PairWeight(w, inv, p) == Max(0, w[p]) * Max(0, inv[p])

\* _weighted_choice(items) with random.random() = r / PickScale, the same
\* value at both call sites (a call evaluates only one of them)
WeightedChoice(items, w, inv, r) ==
    LET weights == [k \in DOMAIN items |-> PairWeight(w, inv, items[k])]
        total == SeqSum(weights)
        acc(k) == SeqSum(SubSeq(weights, 1, k))
        hits == {k \in DOMAIN items : r * total <= acc(k) * PickScale}
    IN IF total <= 0
       THEN items[((r * Len(items)) \div PickScale) + 1]
       ELSE IF hits # {}
       THEN items[CHOOSE k \in hits : \A j \in hits : k <= j]
       ELSE items[Len(items)]

\* Mutant: the win is recorded without taking a unit from the inventory
KeepInventory(inv, p, rem) == inv

\* s.delete(rem_row) if remaining <= 1 else remaining -= 1
TakeOne(inv, p, rem) ==
    IF rem <= 1
    THEN [q \in DOMAIN inv \ {p} |-> inv[q]]
    ELSE [q \in DOMAIN inv |-> IF q = p THEN rem - 1 ELSE inv[q]]

WinRow(user_id, prize_id, won_at) ==
    [user_id |-> user_id, prize_id |-> prize_id, won_at |-> won_at]

\* POST /prizes/draw; code NULL stands for a blank voucher code
draw_prize(code, r) ==
    /\ CanHandle
    /\ LET id == ByCode(vouchers, code)
           rows == Candidates(inventory)
       IN IF code = NULL
          THEN /\ last' = Request("draw", code, NULL, 0, 422, NULL, NULL)
               /\ UNCHANGED <<vouchers, inventory, wins>>
          ELSE IF id = NULL
          THEN /\ last' = Request("draw", code, NULL, 0, 404, NULL, NULL)
               /\ UNCHANGED <<vouchers, inventory, wins>>
          ELSE IF vouchers[id].used_at # NULL
          THEN /\ last' = Request("draw", code, NULL, 0, 409, id, NULL)
               /\ UNCHANGED <<vouchers, inventory, wins>>
          ELSE IF vouchers[id].user_id = NULL
          THEN \* int(v.user_id) raises on None: the request ends in a 500
               /\ last' = Request("draw", code, NULL, 0, 500, id, NULL)
               /\ UNCHANGED <<vouchers, inventory, wins>>
          ELSE IF rows = {}
          THEN /\ last' = Request("draw", code, NULL, 0, 409, id, NULL)
               /\ UNCHANGED <<vouchers, inventory, wins>>
          ELSE \E items \in RowOrders(rows) :
               LET prize == WeightedChoice(items, weight, inventory, r)
                   \* s.get returns the row the session already holds
                   rem == inventory[prize]
               IN IF rem <= 0
                  THEN /\ last' = Request("draw", code, NULL, 0, 409, id, NULL)
                       /\ UNCHANGED <<vouchers, inventory, wins>>
                  ELSE /\ inventory' = TakeOne(inventory, prize, rem)
                       /\ wins' = Append(wins, WinRow(vouchers[id].user_id, prize, clock))
                       /\ vouchers' = [vouchers EXCEPT ![id] =
                              Flush(@, @, [@ EXCEPT !.used_at = clock])]
                       /\ last' = Request("draw", code, NULL, 0, 200, id, prize)
    /\ UNCHANGED <<weight, clock, dialect, start, workers, syncvars, wsvars, othervars>>

\* PUT /prizes/remaining/{prize_id}
upsert_remaining(prize_id, remaining) ==
    /\ CanHandle
    /\ IF remaining < 0
       THEN /\ inventory' = inventory
            /\ last' = Response("upsert", prize_id, 422, NULL)
       ELSE IF prize_id \notin Prizes
       THEN /\ inventory' = inventory
            /\ last' = Response("upsert", prize_id, 404, NULL)
       ELSE IF remaining = 0
       THEN /\ inventory' = [q \in DOMAIN inventory \ {prize_id} |-> inventory[q]]
            /\ last' = Response("upsert", prize_id, 200, NULL)
       ELSE /\ inventory' = [q \in DOMAIN inventory \cup {prize_id} |->
                   IF q = prize_id THEN remaining ELSE inventory[q]]
            /\ last' = Response("upsert", prize_id, 200, NULL)
    /\ UNCHANGED <<vouchers, weight, wins, clock, dialect, start, workers, syncvars, wsvars, othervars>>

\* DELETE /prizes/remaining/{prize_id}
delete_remaining(prize_id) ==
    /\ CanHandle
    /\ inventory' = [q \in DOMAIN inventory \ {prize_id} |-> inventory[q]]
    /\ last' = Response("delete", prize_id, 200, NULL)
    /\ UNCHANGED <<vouchers, weight, wins, clock, dialect, start, workers, syncvars, wsvars, othervars>>

\* PUT /prizes/{prize_id} with a weight; any number is stored
update_prize(prize_id, w) ==
    /\ CanHandle
    /\ IF prize_id \notin Prizes
       THEN /\ weight' = weight
            /\ last' = Response("weight", prize_id, 404, NULL)
       ELSE /\ weight' = [weight EXCEPT ![prize_id] = w]
            /\ last' = Response("weight", prize_id, 200, NULL)
    /\ UNCHANGED <<vouchers, inventory, wins, clock, dialect, start, workers, syncvars, wsvars, othervars>>

\* Time passes
Tick ==
    /\ clock < MaxClock
    /\ clock' = clock + 1
    /\ UNCHANGED <<vouchers, inventory, weight, wins, dialect, start, last, workers, syncvars, wsvars, othervars>>

\* ---------------------------------------------------------------------
\* The same handlers as sessions of concurrent workers.  A worker serves
\* one request: its SELECTs load rows into the session, its commit flushes
\* what it changed.  On a dialect other than sqlite draw_prize's SELECTs
\* are FOR UPDATE and hold their row locks until the session ends.
\* ---------------------------------------------------------------------
NoRow == VoucherRow(NULL, NULL, NULL, NULL, 0)

Worker(pc, op, in, vid, snap, now, prize, rem, status) ==
    [pc |-> pc, op |-> op, in |-> in, vid |-> vid, snap |-> snap, now |-> now,
     prize |-> prize, rem |-> rem, status |-> status]

NoInput == [user_id |-> NULL, issued_by |-> NULL, total_games |-> 0]

IdleWorker == Worker("idle", "none", NoInput, NULL, NoRow, NULL, NULL, 0, 0)

Done(op, in, vid, prize, status) ==
    Worker("done", op, in, vid, NoRow, NULL, prize, 0, status)

Locking == dialect # "sqlite"

\* The voucher rows other sessions hold FOR UPDATE
VoucherLocks(w) ==
    {workers[o].vid : o \in {x \in Workers \ {w} :
        Locking /\ workers[x].pc \in {"draw_select", "draw_commit"}}}

\* The inventory rows other sessions hold FOR UPDATE
InventoryLocks(w) ==
    {workers[o].prize : o \in {x \in Workers \ {w} :
        Locking /\ workers[x].pc = "draw_commit"}}

\* play_game up to its check of the loaded row
BeginPlay(w, voucher_id) ==
    /\ workers[w].pc = "idle"
    /\ workers' = [workers EXCEPT ![w] =
          IF voucher_id \notin Ids(vouchers)
          THEN Done("play", NoInput, NULL, NULL, 404)
          ELSE IF NoRemainingGames(vouchers[voucher_id])
          THEN Done("play", NoInput, voucher_id, NULL, 400)
          ELSE Worker("play_commit", "play", NoInput, voucher_id,
                      vouchers[voucher_id], clock, NULL, 0, 0)]
    /\ UNCHANGED <<vouchers, inventory, weight, wins, clock, dialect, start, last, syncvars, wsvars, othervars>>

\* mark_voucher_used up to its check of the loaded row
BeginUsed(w, code) ==
    /\ workers[w].pc = "idle"
    /\ LET id == ByCode(vouchers, code)
       IN workers' = [workers EXCEPT ![w] =
          IF code = NULL
          THEN Done("used", NoInput, NULL, NULL, 422)
          ELSE IF id = NULL
          THEN Done("used", NoInput, NULL, NULL, 404)
          ELSE IF NoRemainingGames(vouchers[id])
          THEN Done("used", NoInput, id, NULL, 400)
          ELSE Worker("play_commit", "used", NoInput, id, vouchers[id], clock, NULL, 0, 0)]
    /\ UNCHANGED <<vouchers, inventory, weight, wins, clock, dialect, start, last, syncvars, wsvars, othervars>>

\* v.use_count += 1; v.used_at = now; s.commit()
CommitPlay(w) ==
    /\ workers[w].pc = "play_commit"
    /\ workers[w].vid \notin VoucherLocks(w)
    /\ vouchers' = [vouchers EXCEPT ![workers[w].vid] =
          Flush(@, workers[w].snap, Played(workers[w].snap, workers[w].now))]
    /\ workers' = [workers EXCEPT ![w] = Done(@.op, @.in, @.vid, NULL, 200)]
    /\ UNCHANGED <<inventory, weight, wins, clock, dialect, start, last, syncvars, wsvars, othervars>>

\* _issue_voucher_for_user: the first SELECT
BeginIssue(w, user_id, issued_by, total_games) ==
    /\ workers[w].pc = "idle"
    /\ LET in == [user_id |-> user_id, issued_by |-> issued_by, total_games |-> total_games]
           a == AvailableQuery(vouchers)
       IN workers' = [workers EXCEPT ![w] =
          IF a # NULL
          THEN Worker("issue_commit", "issue", in, a, vouchers[a], NULL, NULL, 0, 0)
          ELSE Worker("issue_exhausted", "issue", in, NULL, NoRow, NULL, NULL, 0, 0)]
    /\ UNCHANGED <<vouchers, inventory, weight, wins, clock, dialect, start, last, syncvars, wsvars, othervars>>

\* _issue_voucher_for_user: the second SELECT
SelectExhausted(w) ==
    /\ workers[w].pc = "issue_exhausted"
    /\ LET e == ExhaustedQuery(vouchers)
       IN workers' = [workers EXCEPT ![w] =
          IF e # NULL
          THEN [@ EXCEPT !.pc = "issue_commit", !.vid = e, !.snap = vouchers[e]]
          ELSE [@ EXCEPT !.pc = "issue_insert"]]
    /\ UNCHANGED <<vouchers, inventory, weight, wins, clock, dialect, start, last, syncvars, wsvars, othervars>>

\* _issue_voucher_for_user: the commit that hands the loaded row over
CommitIssue(w) ==
    /\ workers[w].pc = "issue_commit"
    /\ workers[w].vid \notin VoucherLocks(w)
    /\ LET in == workers[w].in
       IN vouchers' = [vouchers EXCEPT ![workers[w].vid] =
             Flush(@, workers[w].snap,
                   Reassign(workers[w].snap, in.user_id, in.issued_by, in.total_games))]
    /\ workers' = [workers EXCEPT ![w] = Done(@.op, @.in, @.vid, NULL, 201)]
    /\ UNCHANGED <<inventory, weight, wins, clock, dialect, start, last, syncvars, wsvars, othervars>>

\* _issue_voucher_for_user: the loop that inserts a new code
InsertIssue(w) ==
    /\ workers[w].pc = "issue_insert"
    /\ LET in == workers[w].in
       IN \/ /\ Len(vouchers) < MaxVouchers
             /\ \E code \in Codes \ UsedCodes(vouchers) :
                   vouchers' = Append(vouchers,
                       VoucherRow(code, in.user_id, in.issued_by, clock, in.total_games))
             /\ workers' = [workers EXCEPT ![w] =
                   Done(@.op, @.in, Len(vouchers) + 1, NULL, 201)]
          \/ /\ UsedCodes(vouchers) # {}
             /\ vouchers' = vouchers
             /\ workers' = [workers EXCEPT ![w] = Done(@.op, @.in, NULL, NULL, 500)]
    /\ UNCHANGED <<inventory, weight, wins, clock, dialect, start, last, syncvars, wsvars, othervars>>

\* draw_prize: the SELECT of the voucher and its checks
BeginDraw(w, code) ==
    /\ workers[w].pc = "idle"
    /\ LET id == ByCode(vouchers, code)
       IN /\ id \notin VoucherLocks(w)
          /\ workers' = [workers EXCEPT ![w] =
                IF code = NULL
                THEN Done("draw", NoInput, NULL, NULL, 422)
                ELSE IF id = NULL
                THEN Done("draw", NoInput, NULL, NULL, 404)
                ELSE IF vouchers[id].used_at # NULL
                THEN Done("draw", NoInput, id, NULL, 409)
                ELSE IF vouchers[id].user_id = NULL
                THEN Done("draw", NoInput, id, NULL, 500)
                ELSE Worker("draw_select", "draw", NoInput, id, vouchers[id],
                            NULL, NULL, 0, 0)]
    /\ UNCHANGED <<vouchers, inventory, weight, wins, clock, dialect, start, last, syncvars, wsvars, othervars>>

\* draw_prize: the SELECT of the candidates, the choice and the re-check
SelectDraw(w, r) ==
    /\ workers[w].pc = "draw_select"
    /\ LET rows == Candidates(inventory)
       IN /\ rows \cap InventoryLocks(w) = {}
          /\ IF rows = {}
             THEN workers' = [workers EXCEPT ![w] = Done(@.op, @.in, @.vid, NULL, 409)]
             ELSE \E items \in RowOrders(rows) :
                  LET prize == WeightedChoice(items, weight, inventory, r)
                      rem == inventory[prize]
                  IN workers' = [workers EXCEPT ![w] =
                        IF rem <= 0
                        THEN Done(@.op, @.in, @.vid, NULL, 409)
                        ELSE [@ EXCEPT !.pc = "draw_commit", !.prize = prize, !.rem = rem]]
    /\ UNCHANGED <<vouchers, inventory, weight, wins, clock, dialect, start, last, syncvars, wsvars, othervars>>

\* draw_prize: the flush of the win, the voucher and the inventory row.  An
\* UPDATE that matches no row aborts the transaction; a DELETE that matches
\* no row does not.
CommitDraw(w) ==
    /\ workers[w].pc = "draw_commit"
    /\ LET me == workers[w]
       IN IF me.rem > 1 /\ me.prize \notin DOMAIN inventory
          THEN /\ workers' = [workers EXCEPT ![w] = Done(@.op, @.in, @.vid, NULL, 500)]
               /\ UNCHANGED <<vouchers, inventory, wins>>
          ELSE /\ inventory' = TakeOne(inventory, me.prize, me.rem)
               /\ wins' = Append(wins, WinRow(me.snap.user_id, me.prize, clock))
               /\ vouchers' = [vouchers EXCEPT ![me.vid] =
                      Flush(@, me.snap, [me.snap EXCEPT !.used_at = clock])]
               /\ workers' = [workers EXCEPT ![w] = Done(@.op, @.in, @.vid, me.prize, 200)]
    /\ UNCHANGED <<weight, clock, dialect, start, last, syncvars, wsvars, othervars>>

\* ---------------------------------------------------------------------
\* run_voucher_sync (src/bot/schedulers/vouchers_sync.py): the loop that
\* retracts the messages of exhausted vouchers and sends new vouchers.
\* Every step is one call of the API or one await of the chat; requests
\* of other clients of the API interleave between the steps.
\* ---------------------------------------------------------------------
\* The settings keys voucher_dm_<suffix>; 0 stands for a suffix that is
\* not a number
Keys == 0..NumUsers

\* One element of state["codes"]
Entry(code, message_id) == [code |-> code, message_id |-> message_id]

\* The stored values: no row, {"codes": [...]}, the old flat object
\* {"code": .., "message_id": ..}, or text of any other shape
Absent == [fmt |-> "absent", codes |-> <<>>]

Junk == [fmt |-> "junk", codes |-> <<>>]

Flat(code, message_id) == [fmt |-> "flat", codes |-> <<Entry(code, message_id)>>]

\* json.dumps({"codes": entries})
EncodeCodes(entries) == [fmt |-> "codes", codes |-> entries]

\* code_str and msg_id > 0
ValidEntry(e) == e.code # NULL /\ e.message_id > 0

\* _decode_state: the normalized entries; <<>> stands for None
decode_state(raw) ==
    CASE raw.fmt = "codes" -> SelectSeq(raw.codes, ValidEntry)
      [] raw.fmt = "flat" -> SelectSeq(raw.codes, ValidEntry)
      [] OTHER -> <<>>

\* Mutant: the codes already sent are not looked at
NoPrevCodes(prev) == {}

\* prev_codes: the codes of the entries of the decoded state
PrevCodes(prev) == {prev[i].code : i \in DOMAIN prev}

\* Mutant: a voucher counts as exhausted once it has been used at all
UsedAtAll(v) == v.use_count > 0

\* int(v.get("use_count") or 0) >= int(v.get("total_games") or 1)
BotExhausted(v) ==
    v.use_count >= (IF v.total_games = 0 THEN 1 ELSE v.total_games)

\* GET /slot/voucher?code=..&user_id=..: the ids of the rows listed
VoucherLookup(vs, code, user_id) ==
    {i \in Ids(vs) : vs[i].code = code /\ vs[i].user_id = user_id}

\* GET /settings: the voucher_dm_ keys that have a row, ordered by key
StateKeys(st) ==
    LET all == [i \in 1..(NumUsers + 1) |-> i - 1]
        Present(k) == st[k].fmt # "absent"
    IN SelectSeq(all, Present)

\* Mutant: only the vouchers never played are listed
FreshVouchers(vs) ==
    LET desc == [k \in 1..Len(vs) |-> vs[Len(vs) + 1 - k]]
        Deliverable(v) == v.use_count = 0 /\ v.use_count < v.total_games /\ v.user_id # NULL
        Brief(v) == [user_id |-> v.user_id, code |-> v.code]
        rows == SelectSeq(desc, Deliverable)
    IN [k \in 1..Len(rows) |-> Brief(rows[k])]

\* GET /slot/voucher?active_only=1, ordered by id descending, without the
\* vouchers the delivery pass skips for their missing user_id
ActiveVouchers(vs) ==
    LET desc == [k \in 1..Len(vs) |-> vs[Len(vs) + 1 - k]]
        Deliverable(v) == v.use_count < v.total_games /\ v.user_id # NULL
        Brief(v) == [user_id |-> v.user_id, code |-> v.code]
        rows == SelectSeq(desc, Deliverable)
    IN [k \in 1..Len(rows) |-> Brief(rows[k])]

NoVoucher == [user_id |-> NULL, code |-> NULL]

NoEntry == Entry(NULL, 0)

\* The local variables of run_voucher_sync
Loop(pc, keys, key, todo, remaining, entry, vlist, v, prev) ==
    [pc |-> pc, hung |-> FALSE, keys |-> keys, key |-> key, todo |-> todo,
     remaining |-> remaining, entry |-> entry, vlist |-> vlist, v |-> v,
     prev |-> prev]

AtPc(pc) == Loop(pc, <<>>, NULL, <<>>, <<>>, NoEntry, <<>>, NoVoucher, <<>>)

\* One chat call or store write of the loop
Event(op, user, code, msg, ok) ==
    [op |-> op, user |-> user, code |-> code, msg |-> msg, ok |-> ok]

\* Mutant: the exception ends the task
Die(l) == AtPc("dead")

\* except Exception: log.exception(...), then await asyncio.sleep
Crash(l) == AtPc("sleep")

\* Pass 2 of the iteration starts
ToDelivery(l) == AtPc("list_vouchers")

\* for key in state_keys
NextKey(l) ==
    IF l.keys = <<>> THEN ToDelivery(l)
    ELSE Loop("get_state", Tail(l.keys), Head(l.keys), <<>>, <<>>, NoEntry,
              <<>>, NoVoucher, <<>>)

\* for entry in codes
NextEntry(l) ==
    IF l.todo = <<>> THEN [l EXCEPT !.pc = "persist", !.entry = NoEntry]
    ELSE [l EXCEPT !.pc = "lookup", !.entry = Head(l.todo), !.todo = Tail(l.todo)]

\* for v in items
NextVoucher(l) ==
    IF l.vlist = <<>> THEN AtPc("sleep")
    ELSE Loop("get_prev", <<>>, NULL, <<>>, <<>>, NoEntry,
              Tail(l.vlist), Head(l.vlist), <<>>)

CanFail == Len(faults) < MaxFaults

Running == ~loop.hung /\ loop.pc \notin {"cancelled", "dead"}

\* The loop goes to sleep: when the iteration ran to its end, the number of
\* requests the API has handled by then is remembered
Rest(l, completed) ==
    seen' = IF l.pc = "sleep"
            THEN [seen EXCEPT !.end = IF completed THEN <<last.seq>> ELSE <<>>]
            ELSE seen

\* The pages of GET /settings
ListSettings ==
    /\ Running /\ loop.pc = "list_settings"
    /\ \/ /\ loop' = NextKey([loop EXCEPT !.keys = StateKeys(settings)])
          /\ faults' = faults
       \/ \* ApiError: break with no key collected
          /\ CanFail
          /\ loop' = ToDelivery(loop)
          /\ faults' = Append(faults, "list_settings")
    /\ UNCHANGED <<settings, sent, nextMsg, log, seen, ledgervars, wsvars, othervars>>

\* raw = settings.get(key); st = _decode_state(raw)
GetState ==
    /\ Running /\ loop.pc = "get_state"
    /\ \/ /\ LET st == decode_state(settings[loop.key])
             IN loop' = IF st = <<>> \/ loop.key = 0
                        THEN NextKey(loop)
                        ELSE NextEntry([loop EXCEPT !.todo = st])
          /\ faults' = faults
          /\ seen' = seen
       \/ \* ApiError outside every inner try
          /\ CanFail
          /\ loop' = Crash(loop)
          /\ faults' = Append(faults, "get")
          /\ Rest(loop', FALSE)
    /\ UNCHANGED <<settings, sent, nextMsg, log, ledgervars, wsvars, othervars>>

\* The lookup of the entry's voucher by code and user
Lookup ==
    /\ Running /\ loop.pc = "lookup"
    /\ \/ /\ LET found == VoucherLookup(vouchers, loop.entry.code, loop.key)
             IN loop' =
                  IF found = {} THEN NextEntry(loop)
                  ELSE IF \E i \in found : BotExhausted(vouchers[i])
                  THEN [loop EXCEPT !.pc = "await_delete"]
                  ELSE NextEntry([loop EXCEPT !.remaining = Append(@, loop.entry)])
          /\ faults' = faults
       \/ \* ApiError: the entry is kept
          /\ CanFail
          /\ loop' = NextEntry([loop EXCEPT !.remaining = Append(@, loop.entry)])
          /\ faults' = Append(faults, "lookup")
    /\ UNCHANGED <<settings, sent, nextMsg, log, seen, ledgervars, wsvars, othervars>>

\* await bot.delete_message(chat_id=user_id, message_id=msg_id) returns or raises
DeleteMessage ==
    /\ Running /\ loop.pc = "await_delete"
    /\ \E ok \in BOOLEAN :
          /\ ok \/ CanFail
          /\ faults' = IF ok THEN faults ELSE Append(faults, "delete_message")
          /\ log' = Append(log, Event("delete_message", loop.key, loop.entry.code,
                                      loop.entry.message_id, ok))
    /\ loop' = NextEntry(loop)
    /\ UNCHANGED <<settings, sent, nextMsg, seen, ledgervars, wsvars, othervars>>

\* settings.set(key, {"codes": remaining}) or api.delete(/settings/key)
Persist ==
    /\ Running /\ loop.pc = "persist"
    /\ \E ok \in BOOLEAN :
          /\ ok \/ CanFail
          /\ faults' = IF ok THEN faults ELSE Append(faults, "persist")
          /\ IF loop.remaining # <<>>
             THEN /\ settings' = IF ok
                       THEN [settings EXCEPT ![loop.key] = EncodeCodes(loop.remaining)]
                       ELSE settings
                  /\ log' = Append(log, Event("set", loop.key, NULL, 0, ok))
             ELSE /\ settings' = IF ok
                       THEN [settings EXCEPT ![loop.key] = Absent]
                       ELSE settings
                  /\ log' = Append(log, Event("delete", loop.key, NULL, 0, ok))
    /\ loop' = NextKey(loop)
    /\ UNCHANGED <<sent, nextMsg, seen, ledgervars, wsvars, othervars>>

\* The pages of GET /slot/voucher?active_only=1
ListVouchers ==
    /\ Running /\ loop.pc = "list_vouchers"
    /\ \/ /\ loop' = NextVoucher([loop EXCEPT !.vlist = ActiveVouchers(vouchers)])
          /\ faults' = faults
          /\ Rest(loop', TRUE)
       \/ \* ApiError: break
          /\ CanFail
          /\ loop' = AtPc("sleep")
          /\ faults' = Append(faults, "list_vouchers")
          /\ Rest(loop', TRUE)
    /\ UNCHANGED <<settings, sent, nextMsg, log, ledgervars, wsvars, othervars>>

\* prev = _decode_state(settings.get(state_key)); code in prev_codes
GetPrev ==
    /\ Running /\ loop.pc = "get_prev"
    /\ \/ /\ LET prev == decode_state(settings[loop.v.user_id])
             IN loop' = IF loop.v.code \in PrevCodes(prev)
                        THEN NextVoucher(loop)
                        ELSE [loop EXCEPT !.pc = "await_send", !.prev = prev]
          /\ faults' = faults
          /\ Rest(loop', TRUE)
       \/ \* ApiError outside every inner try
          /\ CanFail
          /\ loop' = Crash(loop)
          /\ faults' = Append(faults, "get")
          /\ Rest(loop', FALSE)
    /\ UNCHANGED <<settings, sent, nextMsg, log, ledgervars, wsvars, othervars>>

\* A message the chat delivers to the user
Delivered(user, code, msg) == [user |-> user, code |-> code, msg |-> msg]

\* sent = await bot.send_photo(chat_id=user_id, ...) returns or raises
SendPhoto ==
    /\ Running /\ loop.pc = "await_send"
    /\ \/ /\ nextMsg <= MaxMsg
          /\ sent' = sent \cup {Delivered(loop.v.user_id, loop.v.code, nextMsg)}
          /\ nextMsg' = nextMsg + 1
          /\ log' = Append(log, Event("send_photo", loop.v.user_id, loop.v.code, nextMsg, TRUE))
          /\ loop' = [loop EXCEPT !.pc = "record",
                                  !.entry = Entry(loop.v.code, nextMsg)]
          /\ UNCHANGED <<faults, seen>>
       \/ /\ CanFail
          /\ faults' = Append(faults, "send_photo")
          /\ log' = Append(log, Event("send_photo", loop.v.user_id, loop.v.code, 0, FALSE))
          /\ loop' = NextVoucher(loop)
          /\ Rest(loop', TRUE)
          /\ UNCHANGED <<sent, nextMsg>>
    /\ UNCHANGED <<settings, ledgervars, wsvars, othervars>>

\* settings.set(state_key, merged) with the new entry appended
Record ==
    /\ Running /\ loop.pc = "record"
    /\ \E ok \in BOOLEAN :
          /\ ok \/ CanFail
          /\ faults' = IF ok THEN faults ELSE Append(faults, "record")
          /\ settings' = IF ok
                THEN [settings EXCEPT ![loop.v.user_id] =
                         EncodeCodes(Append(loop.prev, loop.entry))]
                ELSE settings
          /\ log' = Append(log, Event("set", loop.v.user_id, NULL, 0, ok))
    /\ loop' = NextVoucher(loop)
    /\ Rest(loop', TRUE)
    /\ UNCHANGED <<sent, nextMsg, ledgervars, wsvars, othervars>>

\* await asyncio.sleep(interval_s) returns: the next iteration begins
Wake ==
    /\ Running /\ loop.pc = "sleep"
    /\ loop' = AtPc("list_settings")
    /\ log' = <<>>
    /\ seen' = [seen EXCEPT !.prev = seen.end]
    /\ UNCHANGED <<settings, sent, nextMsg, faults, ledgervars, wsvars, othervars>>

\* The awaits of the loop
Suspended == loop.pc \in {"await_delete", "await_send", "sleep"}

\* The chat call never returns
Hang ==
    /\ Running /\ loop.pc \in {"await_delete", "await_send"}
    /\ loop' = [loop EXCEPT !.hung = TRUE]
    /\ UNCHANGED <<settings, sent, nextMsg, log, faults, seen, ledgervars, wsvars, othervars>>

\* task.cancel(): CancelledError is raised at the await and passes the
\* handlers of Exception.  A send_photo in flight has reached the chat or not.
Cancel ==
    /\ loop.pc \notin {"cancelled", "dead"} /\ Suspended
    /\ loop' = [loop EXCEPT !.pc = "cancelled", !.hung = FALSE]
    /\ \/ UNCHANGED <<sent, nextMsg>>
       \/ /\ loop.pc = "await_send"
          /\ nextMsg <= MaxMsg
          /\ sent' = sent \cup {Delivered(loop.v.user_id, loop.v.code, nextMsg)}
          /\ nextMsg' = nextMsg + 1
    /\ UNCHANGED <<settings, log, faults, seen, ledgervars, wsvars, othervars>>

\* The steps the loop takes by itself
LoopStep ==
    \/ ListSettings \/ GetState \/ Lookup \/ DeleteMessage \/ Persist
    \/ ListVouchers \/ GetPrev \/ SendPhoto \/ Record \/ Wake

\* The loop before its first iteration, nothing tracked
SyncIdle ==
    /\ settings = [k \in Keys |-> Absent]
    /\ sent = {}
    /\ nextMsg = 1
    /\ loop = AtPc("list_settings")
    /\ log = <<>>
    /\ faults = <<>>
    /\ seen = [prev |-> <<>>, end |-> <<>>]

\* ---------------------------------------------------------------------
\* The player channel /ws/player (src/api/app.py)
\* ---------------------------------------------------------------------
Sockets == 1..NumSockets

\* The callers of a broadcast: the handler of a socket, or an HTTP endpoint
Http == NumSockets + 1

\* A connection before the client connects
NoSocket == [st |-> "new", peer |-> "open", inbox |-> <<>>, removed |-> FALSE]

NoBroadcast ==
    [on |-> FALSE, by |-> NULL, n |-> 0, start |-> {}, pending |-> <<>>,
     tried |-> <<>>, dead |-> {}]

\* _player_state_payload(ctrl)
player_state_payload(c) ==
    [type |-> "state", version |-> c.version, playing |-> c.playing]

\* A message the peer of a socket receives, with the call that sent it
Received(payload, call) == [payload |-> payload, call |-> call]

\* list(ctrl.clients): the clients in the order the set yields them
Orders(S) ==
    {q \in [1..Cardinality(S) -> S] : \A i, j \in 1..Cardinality(S) : q[i] = q[j] => i = j}

\* Mutant: the client is in the set as soon as it is accepted
AddedAtAccept(clients, s) == clients \cup {s}

\* await ws.accept() leaves ctrl.clients alone
AfterAccept(clients, s) == clients

\* Mutant: the clients whose send raised stay in the set
KeepDead(clients, dead) == clients

\* for ws in dead: ctrl.clients.discard(ws)
DiscardDead(clients, dead) == clients \ dead

\* await ws.accept()
Accept(s) ==
    /\ socks[s].st = "new"
    /\ socks' = [socks EXCEPT ![s].st = "accepted"]
    /\ ctrl' = [ctrl EXCEPT !.clients = AfterAccept(@, s)]
    /\ UNCHANGED <<lock, bc, ledgervars, syncvars, othervars>>

\* async with ctrl.lock: ctrl.clients.add(ws); ...; ctrl.version += 1
Join(s) ==
    /\ socks[s].st = "accepted"
    /\ lock = NULL
    /\ lock' = s
    /\ ctrl' = [ctrl EXCEPT !.clients = @ \cup {s}, !.version = @ + 1]
    /\ socks' = [socks EXCEPT ![s].st = "snapshot"]
    /\ UNCHANGED <<bc, ledgervars, syncvars, othervars>>

\* await ws.send_json(_player_state_payload(ctrl)) inside the lock; when it
\* raises, the handler ends before its try block and the client stays in the set
Snapshot(s) ==
    /\ socks[s].st = "snapshot"
    /\ lock = s
    /\ lock' = NULL
    /\ socks' = IF socks[s].peer = "open"
                THEN [socks EXCEPT ![s].st = "open",
                                   ![s].inbox = Append(@, Received(player_state_payload(ctrl), "connect"))]
                ELSE [socks EXCEPT ![s].st = "gone"]
    /\ UNCHANGED <<ctrl, bc, ledgervars, syncvars, othervars>>

\* The client goes away: every later send to it raises
Close(s) ==
    /\ socks[s].st \in {"accepted", "snapshot", "open"}
    /\ socks[s].peer = "open"
    /\ socks' = [socks EXCEPT ![s].peer = "closed"]
    /\ UNCHANGED <<ctrl, lock, bc, ledgervars, syncvars, othervars>>

\* receive_json raises WebSocketDisconnect; finally: discard under the lock
Leave(s) ==
    /\ socks[s].st = "open"
    /\ socks[s].peer = "closed"
    /\ lock = NULL
    /\ ctrl' = [ctrl EXCEPT !.clients = @ \ {s}]
    /\ socks' = [socks EXCEPT ![s].st = "gone"]
    /\ UNCHANGED <<lock, bc, ledgervars, syncvars, othervars>>

\* An operation (play, pause) of a connected client or of an HTTP endpoint:
\* under the lock, the state changes and _broadcast_player_state(ctrl,
\* bump=True) starts: version += 1, payload, list(ctrl.clients)
BeginBroadcast(by, playing) ==
    /\ IF by = Http THEN TRUE ELSE socks[by].st = "open" /\ socks[by].peer = "open"
    /\ lock = NULL
    /\ bc.n < MaxOps
    /\ lock' = by
    /\ ctrl' = [ctrl EXCEPT !.playing = playing, !.version = @ + 1]
    /\ \E order \in Orders(ctrl.clients) :
          bc' = [on |-> TRUE, by |-> by, n |-> bc.n + 1, start |-> ctrl.clients,
                 pending |-> order, tried |-> <<>>, dead |-> {}]
    /\ UNCHANGED <<socks, ledgervars, syncvars, othervars>>

\* try: await ws.send_json(payload) except Exception: dead.append(ws)
BroadcastSend ==
    /\ bc.on
    /\ bc.pending # <<>>
    /\ LET ws == Head(bc.pending)
       IN /\ socks' = IF socks[ws].peer = "open"
                      THEN [socks EXCEPT ![ws].inbox =
                               Append(@, Received(player_state_payload(ctrl), "broadcast"))]
                      ELSE socks
          /\ bc' = [bc EXCEPT !.pending = Tail(@),
                              !.tried = Append(@, ws),
                              !.dead = IF socks[ws].peer = "open" THEN @ ELSE @ \cup {ws}]
    /\ UNCHANGED <<ctrl, lock, ledgervars, syncvars, othervars>>

\* for ws in dead: ctrl.clients.discard(ws); the lock is released
EndBroadcast ==
    /\ bc.on
    /\ bc.pending = <<>>
    /\ ctrl' = [ctrl EXCEPT !.clients = DiscardDead(@, bc.dead)]
    /\ socks' = [s \in Sockets |->
                    IF s \in bc.dead THEN [socks[s] EXCEPT !.removed = TRUE] ELSE socks[s]]
    /\ bc' = [bc EXCEPT !.on = FALSE]
    /\ lock' = NULL
    /\ UNCHANGED <<ledgervars, syncvars, othervars>>

\* create_app: app.state.player = _PlayerController()
WsIdle ==
    /\ ctrl = [playing |-> FALSE, version |-> 0, clients |-> {}]
    /\ lock = NULL
    /\ socks = [s \in Sockets |-> NoSocket]
    /\ bc = NoBroadcast

\* ---------------------------------------------------------------------
\* The player: index and playlist (src/api/app.py)
\* ---------------------------------------------------------------------
TrackIds == 1..MaxTracks

\* index: int | None = None
Unset == -1

Min(a, b) == IF a <= b THEN a ELSE b

\* _load_playlist: the rows ordered by added_at, id
RECURSIVE load_playlist(_)
load_playlist(tbl) ==
    IF tbl = {} THEN <<>>
    ELSE LET first == CHOOSE t \in tbl : \A u \in tbl : t <= u
         IN <<first>> \o load_playlist(tbl \ {first})

\* Mutant: the reload keeps the index as it was
ReloadKeepingIndex(d, tbl) == [index |-> d.index, playlist |-> load_playlist(tbl)]

\* ctrl.playlist = _load_playlist(s) and the two adjustments of ctrl.index
Reload(d, tbl) ==
    LET pl == load_playlist(tbl)
        i1 == IF d.index = Unset /\ pl # <<>> THEN 0 ELSE d.index
        i2 == IF i1 # Unset /\ i1 >= Len(pl)
              THEN (IF pl # <<>> THEN 0 ELSE Unset)
              ELSE i1
    IN [index |-> i2, playlist |-> pl]

\* The values a client can put under "index": a JSON integer, a JSON number
\* with a fraction (twice its value is kept), a string of digits, null or a
\* missing key, any other string
JsonInt(n) == [kind |-> "int", n |-> n]

JsonHalves(n) == [kind |-> "float", n |-> n]

JsonDigits(n) == [kind |-> "str", n |-> n]

JsonNull == [kind |-> "null", n |-> 0]

JsonText == [kind |-> "text", n |-> 0]

IndexInputs ==
    {JsonInt(n) : n \in (0 - 1)..MaxTracks}
    \cup {JsonHalves(n) : n \in {0 - 3, 0 - 1, 1, 3, 2 * MaxTracks + 1}}
    \cup {JsonDigits(n) : n \in 0..MaxTracks}
    \cup {JsonNull, JsonText}

\* int(x): the number truncated toward zero, the string parsed, or an exception
py_int(x) ==
    CASE x.kind = "int" -> [ok |-> TRUE, n |-> x.n]
      [] x.kind = "float" ->
            [ok |-> TRUE, n |-> IF x.n >= 0 THEN x.n \div 2 ELSE 0 - ((0 - x.n) \div 2)]
      [] x.kind = "str" -> [ok |-> TRUE, n |-> x.n]
      [] OTHER -> [ok |-> FALSE, n |-> 0]

\* idx < 0 or idx >= len(ctrl.playlist)
OutOfRange(idx, pl) == idx < 0 \/ idx >= Len(pl)

\* min(ctrl.index + 1, len(ctrl.playlist) - 1)
WsNextIndex(i, n) == Min(i + 1, n - 1)

\* max(ctrl.index - 1, 0)
WsPrevIndex(i, n) == Max(i - 1, 0)

\* Mutant: the HTTP endpoint stops at the last track
HttpNextClamped(i, n) == Min(i + 1, n - 1)

\* (ctrl.index + 1) % len(ctrl.playlist)
HttpNextIndex(i, n) == (i + 1) % n

\* (ctrl.index - 1) % len(ctrl.playlist)
HttpPrevIndex(i, n) == (i - 1) % n

\* random.shuffle(ctrl.playlist): the orders of the same tracks
Shuffles(pl) ==
    {q \in [DOMAIN pl -> {pl[i] : i \in DOMAIN pl}] :
        \A i, j \in DOMAIN pl : q[i] = q[j] => i = j}

\* _player_state_payload(ctrl) with index and playlist
PlayerState(c, d) ==
    [type |-> "state", version |-> c.version, playing |-> c.playing,
     index |-> d.index, playlist |-> d.playlist]

\* The operation of a message: its "op" and its "index"
Named(name) == [name |-> name, index |-> JsonNull]

Seek(x) == [name |-> "set_index", index |-> x]

\* What an operation sent: the message to its caller and the clients the
\* state was broadcast to; was is the index the operation found
Reply(op, by, type, to) ==
    [op |-> op, by |-> by, type |-> type, to |-> to, was |-> deck.index]

NoReply ==
    [op |-> Named("none"), by |-> NULL, type |-> "none", to |-> {}, was |-> Unset]

CanBump == ctrl.version < MaxVersion

\* _broadcast_player_state(ctrl, bump=True) after the change of an operation
Bumped(op, by, playing, d) ==
    /\ CanBump
    /\ ctrl' = [ctrl EXCEPT !.playing = playing, !.version = @ + 1]
    /\ deck' = d
    /\ reply' = Reply(op, by, "state", ctrl.clients)
    /\ UNCHANGED tracks

\* ws_player: connect, the playlist is loaded and the state sent to the client
WsConnect(s) ==
    /\ s \notin ctrl.clients
    /\ CanBump
    /\ ctrl' = [ctrl EXCEPT !.clients = @ \cup {s}, !.version = @ + 1]
    /\ deck' = Reload(deck, tracks)
    /\ reply' = Reply(Named("connect"), s, "state", {})
    /\ UNCHANGED <<tracks, lock, socks, bc, ledgervars, syncvars, restvars>>

\* finally: ctrl.clients.discard(ws)
WsDisconnect(s) ==
    /\ s \in ctrl.clients
    /\ ctrl' = [ctrl EXCEPT !.clients = @ \ {s}]
    /\ reply' = NoReply
    /\ UNCHANGED <<deck, tracks, lock, socks, bc, ledgervars, syncvars, restvars>>

\* op refresh_playlist
WsRefresh(s) ==
    /\ s \in ctrl.clients
    /\ Bumped(Named("refresh"), s, ctrl.playing, Reload(deck, tracks))
    /\ UNCHANGED <<lock, socks, bc, ledgervars, syncvars, restvars>>

\* play: ctrl.playing = True; an unset index becomes 0 when there are tracks
WithPlay(d) ==
    IF d.index = Unset /\ d.playlist # <<>> THEN [d EXCEPT !.index = 0] ELSE d

\* op play
WsPlay(s) ==
    /\ s \in ctrl.clients
    /\ Bumped(Named("play"), s, TRUE, WithPlay(deck))
    /\ UNCHANGED <<lock, socks, bc, ledgervars, syncvars, restvars>>

\* op pause
WsPause(s) ==
    /\ s \in ctrl.clients
    /\ Bumped(Named("pause"), s, FALSE, deck)
    /\ UNCHANGED <<lock, socks, bc, ledgervars, syncvars, restvars>>

\* if ctrl.playlist: index = 0 if ctrl.index is None else the stepped index
Stepped(d, stepped) ==
    IF d.playlist = <<>> THEN d
    ELSE IF d.index = Unset THEN [d EXCEPT !.index = 0]
    ELSE [d EXCEPT !.index = stepped]

\* op next
WsNext(s) ==
    /\ s \in ctrl.clients
    /\ Bumped(Named("next"), s, ctrl.playing, Stepped(deck, WsNextIndex(deck.index, Len(deck.playlist))))
    /\ UNCHANGED <<lock, socks, bc, ledgervars, syncvars, restvars>>

\* op prev
WsPrev(s) ==
    /\ s \in ctrl.clients
    /\ Bumped(Named("prev"), s, ctrl.playing, Stepped(deck, WsPrevIndex(deck.index, Len(deck.playlist))))
    /\ UNCHANGED <<lock, socks, bc, ledgervars, syncvars, restvars>>

\* op set_index / seek with msg["index"] = x
WsSetIndex(s, x) ==
    /\ s \in ctrl.clients
    /\ IF ~py_int(x).ok \/ OutOfRange(py_int(x).n, deck.playlist)
       THEN /\ reply' = Reply(Seek(x), s, "error", {})
            /\ UNCHANGED <<ctrl, deck, tracks>>
       ELSE Bumped(Seek(x), s, ctrl.playing, [deck EXCEPT !.index = py_int(x).n])
    /\ UNCHANGED <<lock, socks, bc, ledgervars, syncvars, restvars>>

\* POST /player/play
player_play ==
    /\ Bumped(Named("play"), Http, TRUE, WithPlay(deck))
    /\ UNCHANGED <<lock, socks, bc, ledgervars, syncvars, restvars>>

\* POST /player/pause
player_pause ==
    /\ Bumped(Named("pause"), Http, FALSE, deck)
    /\ UNCHANGED <<lock, socks, bc, ledgervars, syncvars, restvars>>

\* POST /player/shuffle
player_shuffle ==
    /\ \E q \in Shuffles(deck.playlist) :
          Bumped(Named("shuffle"), Http, ctrl.playing,
                 IF deck.playlist # <<>> THEN [index |-> 0, playlist |-> q] ELSE deck)
    /\ UNCHANGED <<lock, socks, bc, ledgervars, syncvars, restvars>>

\* POST /player/prev
player_prev ==
    /\ Bumped(Named("prev"), Http, ctrl.playing, Stepped(deck, HttpPrevIndex(deck.index, Len(deck.playlist))))
    /\ UNCHANGED <<lock, socks, bc, ledgervars, syncvars, restvars>>

\* POST /player/next
player_next ==
    /\ Bumped(Named("next"), Http, ctrl.playing, Stepped(deck, HttpNextIndex(deck.index, Len(deck.playlist))))
    /\ UNCHANGED <<lock, socks, bc, ledgervars, syncvars, restvars>>

\* A track is added to or deleted from spotify_tracks by another endpoint
EditTracks(t) ==
    /\ tracks' = IF t \in tracks THEN tracks \ {t} ELSE tracks \cup {t}
    /\ reply' = NoReply
    /\ UNCHANGED <<ctrl, deck, lock, socks, bc, ledgervars, syncvars, restvars>>

\* create_app: the player before any client connects
PlayerIdle ==
    /\ deck = [index |-> Unset, playlist |-> <<>>]
    /\ tracks = {}
    /\ reply = NoReply

\* ---------------------------------------------------------------------
\* run_tracks_closure_scheduler (src/bot/schedulers/tracks_closure.py) and
\* the admin's tracks_close_confirm (src/bot/routers/admin.py)
\* ---------------------------------------------------------------------
\* 15 * 60 seconds, in units of the scheduler's clock
Lead == 2

GroupChats == 1..NumGroups

\* A warning delivered to a group chat: the close time it announces, the
\* iteration that sent it, that iteration's now_ts, and how many times the
\* close time had been changed to another value
Warning(chat, l) ==
    [chat |-> chat, for |-> l.close_ts, iter |-> l.iter, at |-> l.now_ts,
     changes |-> l.changes]

\* announce_from <= now_ts < close_ts and announced_for_ts != close_ts
Due(close_ts, now_ts, announced_for_ts) ==
    /\ close_ts - Lead <= now_ts
    /\ now_ts < close_ts
    /\ announced_for_ts # close_ts

SchedCanFail == sched.faults < MaxFaults

\* The iteration is over: await asyncio.sleep(poll_seconds)
ToSleep(l) == [l EXCEPT !.pc = "sleep", !.todo = <<>>]

\* _get_close_ts, now_ts, the read of the announced time and the test; a
\* failing read, or chats.group_chat_ids() failing before the first send,
\* ends the iteration in except Exception
Decide ==
    /\ sched.pc = "decide"
    /\ \/ /\ sched' =
               IF sched.close # NULL /\ Due(sched.close, sched.now, sched.announced)
               THEN [sched EXCEPT !.pc = "send", !.close_ts = sched.close,
                                  !.now_ts = sched.now,
                                  !.todo = [i \in 1..NumGroups |-> i]]
               ELSE ToSleep(sched)
       \/ /\ SchedCanFail
          /\ sched' = [ToSleep(sched) EXCEPT !.faults = @ + 1]
    /\ UNCHANGED <<ledgervars, syncvars, wsvars, playervars, photos, conv, auth>>

\* await bot.send_message(chat_id, text) for the next group chat; an
\* exception is passed over
SendWarning ==
    /\ sched.pc = "send"
    /\ sched.todo # <<>>
    /\ \/ sched' = [sched EXCEPT !.todo = Tail(@),
                                 !.warnings = @ \cup {Warning(Head(sched.todo), sched)}]
       \/ /\ SchedCanFail
          /\ sched' = [sched EXCEPT !.todo = Tail(@), !.faults = @ + 1]
    /\ UNCHANGED <<ledgervars, syncvars, wsvars, playervars, photos, conv, auth>>

\* settings.set(_ANNOUNCED_FOR_TS_KEY, str(close_ts)); a failure ends the
\* iteration in except Exception
MarkAnnounced ==
    /\ sched.pc = "send"
    /\ sched.todo = <<>>
    /\ \/ sched' = [ToSleep(sched) EXCEPT !.announced = sched.close_ts]
       \/ /\ SchedCanFail
          /\ sched' = [ToSleep(sched) EXCEPT !.faults = @ + 1]
    /\ UNCHANGED <<ledgervars, syncvars, wsvars, playervars, photos, conv, auth>>

\* await asyncio.sleep(poll_seconds) returns
SchedWake ==
    /\ sched.pc = "sleep"
    /\ sched.iter < MaxIters
    /\ sched' = [sched EXCEPT !.pc = "decide", !.iter = @ + 1]
    /\ UNCHANGED <<ledgervars, syncvars, wsvars, playervars, photos, conv, auth>>

\* Time passes
SchedTick ==
    /\ sched.now < MaxNow
    /\ sched' = [sched EXCEPT !.now = @ + 1]
    /\ UNCHANGED <<ledgervars, syncvars, wsvars, playervars, photos, conv, auth>>

\* tracks_close_confirm: a close time in the future is stored and the
\* announced time is reset to "0"
tracks_close_confirm(close_ts) ==
    /\ sched.confirms < MaxConfirms
    /\ close_ts > sched.now
    /\ sched' = [sched EXCEPT !.close = close_ts, !.announced = 0,
                              !.confirms = @ + 1,
                              !.changes = IF close_ts # sched.close THEN @ + 1 ELSE @]
    /\ UNCHANGED <<ledgervars, syncvars, wsvars, playervars, photos, conv, auth>>

\* The bot starts: no close time is set, the first iteration begins
SchedIdle ==
    sched = [close |-> NULL, announced |-> 0, now |-> 1, pc |-> "decide", iter |-> 1,
             close_ts |-> NULL, now_ts |-> 0, todo |-> <<>>, warnings |-> {},
             faults |-> 0, confirms |-> 0, changes |-> 0]

\* ---------------------------------------------------------------------
\* Plugin._on_group_photo (src/bot/plugins/system/photos/plugin.py)
\* ---------------------------------------------------------------------
PhotoHandlers == 1..NumHandlers

\* file_unique_id of the best size; NULL stands for a blank one
UniqueIds == {NULL} \cup (1..NumPhotos)

_MAX_PROCESSED_UNIQUE_IDS == 5000

\* _seen_unique_id
seen_unique_id(uid) ==
    IF uid = NULL THEN FALSE
    ELSE IF uid \in photos.inflight THEN TRUE
    ELSE \E i \in DOMAIN photos.processed : photos.processed[i] = uid

\* _mark_inflight
mark_inflight(S, uid) == IF uid # NULL THEN S \cup {uid} ELSE S

\* _unmark_inflight
unmark_inflight(S, uid) == IF uid # NULL THEN S \ {uid} ELSE S

\* _mark_processed: the id moves to the end, the oldest ids beyond the limit
\* are dropped
mark_processed(q, uid) ==
    IF uid = NULL THEN q
    ELSE LET moved == Append(SelectSeq(q, LAMBDA x : x # uid), uid)
         IN IF Len(moved) > _MAX_PROCESSED_UNIQUE_IDS
            THEN SubSeq(moved, Len(moved) - _MAX_PROCESSED_UNIQUE_IDS + 1, Len(moved))
            ELSE moved

\* A handler: where it is, the photo it handles, and how it ended
Handling(pc, uid, exit) == [pc |-> pc, uid |-> uid, exit |-> exit]

\* The handler has returned or raised
Finished(h, exit) ==
    [photos.h EXCEPT ![h] = Handling("done", photos.h[h].uid, exit)]

\* The handler is entered with a group photo: the duplicate test and
\* _mark_inflight
OnGroupPhoto(h, uid) ==
    /\ photos.h[h].pc \in {"idle", "done"}
    /\ photos.n < MaxPhotoMsgs
    /\ photos' =
         IF uid # NULL /\ seen_unique_id(uid)
         THEN [photos EXCEPT !.n = @ + 1,
                             !.h[h] = Handling("done", uid, "duplicate")]
         ELSE [photos EXCEPT !.n = @ + 1,
                             !.inflight = mark_inflight(@, uid),
                             !.h[h] = Handling("get_file", uid, "")]
    /\ UNCHANGED <<ledgervars, syncvars, wsvars, playervars, sched, conv, auth>>

\* await bot.get_file(best.file_id) returns or raises
GetFile(h) ==
    /\ photos.h[h].pc = "get_file"
    /\ \/ photos' = [photos EXCEPT !.h[h].pc = "mkdir"]
       \/ photos' = [photos EXCEPT !.inflight = unmark_inflight(@, photos.h[h].uid),
                                   !.h = Finished(h, "get_file failed")]
    /\ UNCHANGED <<ledgervars, syncvars, wsvars, playervars, sched, conv, auth>>

\* dst_dir.mkdir(parents=True, exist_ok=True), before the try: an OSError
\* leaves the handler
MakeTmpDir(h) ==
    /\ photos.h[h].pc = "mkdir"
    /\ \/ photos' = [photos EXCEPT !.h[h].pc = "download"]
       \/ photos' = [photos EXCEPT !.h = Finished(h, "mkdir failed")]
    /\ UNCHANGED <<ledgervars, syncvars, wsvars, playervars, sched, conv, auth>>

\* await bot.download_file(...) returns or raises; finally: _unmark_inflight
Download(h) ==
    /\ photos.h[h].pc = "download"
    /\ \/ photos' = [photos EXCEPT !.h[h].pc = "upload"]
       \/ photos' = [photos EXCEPT !.inflight = unmark_inflight(@, photos.h[h].uid),
                                   !.h = Finished(h, "download failed")]
    /\ UNCHANGED <<ledgervars, syncvars, wsvars, playervars, sched, conv, auth>>

\* photos.upload(...) returns, then _mark_processed, or raises; finally:
\* _unmark_inflight
Upload(h) ==
    /\ photos.h[h].pc = "upload"
    /\ \/ photos' = [photos EXCEPT !.uploaded = @ \cup {photos.h[h].uid},
                                   !.processed = mark_processed(@, photos.h[h].uid),
                                   !.inflight = unmark_inflight(@, photos.h[h].uid),
                                   !.h = Finished(h, "uploaded")]
       \/ photos' = [photos EXCEPT !.inflight = unmark_inflight(@, photos.h[h].uid),
                                   !.h = Finished(h, "upload failed")]
    /\ UNCHANGED <<ledgervars, syncvars, wsvars, playervars, sched, conv, auth>>

\* The bot starts: nothing processed, nothing in flight
PhotosIdle ==
    photos = [inflight |-> {}, processed |-> <<>>, uploaded |-> {}, n |-> 0,
              h |-> [h \in PhotoHandlers |-> Handling("idle", NULL, "")]]

\* ---------------------------------------------------------------------
\* The tracks conversation (src/bot/plugins/system/tracks/plugin.py) and
\* ClearTracksWaitOnCommandMiddleware
\* ---------------------------------------------------------------------
ChatUsers == 1..NumChatUsers

SpotifyIds == 1..NumSpotifyIds

\* _TrackStates, and no state
WaitingStates == {"waiting_query", "waiting_confirm"}

\* How _handle_query ends: the list is closed, the query is a command,
\* Spotify is not configured, the user's limit is reached, nothing is found,
\* the track is already added, the lookup raises, or a candidate is found
QueryOutcomes ==
    {"closed", "command", "not configured", "limit", "not found", "exists",
     "failed", "found"}

\* How confirm_add ends after cancelling the timeout
ConfirmOutcomes == {"closed", "exists", "limit", "added", "not added"}

\* The FSM state of a (chat, user), the candidate in its data, and the
\* expected_state of the timeout task armed for it ("none": no task)
Conversation(state, candidate, timer) ==
    [state |-> state, candidate |-> candidate, timer |-> timer]

\* await state.clear()
Cleared(c) == [c EXCEPT !.state = "none", !.candidate = NULL]

\* Plugin._cancel_state_timeout
cancel_state_timeout(c) == [c EXCEPT !.timer = "none"]

\* Plugin._arm_state_timeout
arm_state_timeout(c, expected_state) == [c EXCEPT !.timer = expected_state]

\* The middleware's clear before the handler of a command
ClearedOnCommand(c) == IF c.state \in WaitingStates THEN Cleared(c) ELSE c

\* _handle_query
handle_query(c, outcome, id) ==
    IF outcome = "found"
    THEN arm_state_timeout([c EXCEPT !.state = "waiting_confirm", !.candidate = id],
                           "waiting_confirm")
    ELSE c

\* cmd_track: /track alone asks for the query, /track <query> handles it
cmd_track(u, args, outcome, id) ==
    /\ conv' = [conv EXCEPT ![u] =
         LET c == ClearedOnCommand(@)
         IN IF ~args
            THEN IF outcome = "closed" THEN c
                 ELSE arm_state_timeout([c EXCEPT !.state = "waiting_query"],
                                        "waiting_query")
            ELSE handle_query(c, outcome, id)]
    /\ UNCHANGED <<ledgervars, syncvars, wsvars, playervars, sched, photos, auth>>

\* menu_add_track
menu_add_track(u, closed) ==
    /\ conv' = [conv EXCEPT ![u] =
         IF closed THEN @
         ELSE arm_state_timeout([@ EXCEPT !.state = "waiting_query"], "waiting_query")]
    /\ UNCHANGED <<ledgervars, syncvars, wsvars, playervars, sched, photos, auth>>

\* Another command while waiting: the middleware clears the state; when
\* the tracks router sees the message first, command_while_waiting_query or
\* command_while_waiting_confirm also cancels the timeout
command_while_waiting(u, tracks_router) ==
    /\ conv[u].state \in WaitingStates
    /\ conv' = [conv EXCEPT ![u] =
         IF tracks_router THEN cancel_state_timeout(Cleared(@)) ELSE Cleared(@)]
    /\ UNCHANGED <<ledgervars, syncvars, wsvars, playervars, sched, photos, auth>>

\* got_query: a text that is not a command, in waiting_query
got_query(u, outcome, id) ==
    /\ conv[u].state = "waiting_query"
    /\ outcome # "command"
    /\ conv' = [conv EXCEPT ![u] = handle_query(cancel_state_timeout(@), outcome, id)]
    /\ UNCHANGED <<ledgervars, syncvars, wsvars, playervars, sched, photos, auth>>

\* cancel: the button track:cancel
cancel(u) ==
    /\ conv' = [conv EXCEPT ![u] = Cleared(cancel_state_timeout(@))]
    /\ UNCHANGED <<ledgervars, syncvars, wsvars, playervars, sched, photos, auth>>

\* confirm_add: the button track:add:<id>
confirm_add(u, id, outcome) ==
    /\ conv' = [conv EXCEPT ![u] =
         LET c == cancel_state_timeout(@)
         IN IF outcome = "closed" THEN Cleared(c)
            ELSE IF c.candidate = NULL THEN c
            ELSE IF id # c.candidate THEN c
            ELSE Cleared(c)]
    /\ UNCHANGED <<ledgervars, syncvars, wsvars, playervars, sched, photos, auth>>

\* _job after asyncio.sleep(timeout_s): the state is cleared if it is still
\* the expected one, and the task is forgotten
StateTimeout(u) ==
    /\ conv[u].timer # "none"
    /\ conv' = [conv EXCEPT ![u] =
         cancel_state_timeout(IF @.state = @.timer THEN Cleared(@) ELSE @)]
    /\ UNCHANGED <<ledgervars, syncvars, wsvars, playervars, sched, photos, auth>>

\* The bot starts: no conversation, no timeout task
ConvIdle == conv = [u \in ChatUsers |-> Conversation("none", NULL, "none")]

\* ---------------------------------------------------------------------
\* auth_middleware (src/api/app.py)
\* ---------------------------------------------------------------------
Tokens == 1..NumTokens

\* _hash_token: sha256 of the token, a value outside the tokens
hash_token(t) == NumTokens + t

Paths ==
    {"/health", "/api/health", "/spotify/callback", "/api/spotify/callback",
     "/spotify/login", "/slot/voucher", "/player/play", "/health/"}

\* The paths whose query string may carry the token
QueryPaths ==
    {"/spotify/login", "/spotify/token", "/spotify/reset",
     "/api/spotify/login", "/api/spotify/token", "/api/spotify/reset"}

\* The paths auth_middleware lets through unchecked
ExemptPaths ==
    {"/health", "/api/health", "/spotify/callback", "/api/spotify/callback"}

\* A request: its path, the token after "Authorization: Bearer", the header
\* X-Api-Token, the query parameter token (NULL: not given), and whether the
\* store fails while the token is looked up
HttpRequest(path, bearer, xapi, query, fails) ==
    [path |-> path, bearer |-> bearer, xapi |-> xapi, query |-> query, fails |-> fails]

NoRequest == HttpRequest("", NULL, NULL, NULL, FALSE)

\* _extract_http_token
extract_http_token(req) ==
    IF req.bearer # NULL THEN req.bearer
    ELSE IF req.xapi # NULL THEN req.xapi
    ELSE IF req.path \in QueryPaths THEN req.query
    ELSE NULL

\* Mutant: a request without token passes
TokenOptional(req, stored) ==
    LET token == extract_http_token(req)
    IN IF token = NULL THEN [ok |-> TRUE, err |-> ""]
       ELSE IF req.fails THEN [ok |-> FALSE, err |-> "Unauthorized"]
       ELSE IF hash_token(token) \notin stored THEN [ok |-> FALSE, err |-> "Invalid API token"]
       ELSE [ok |-> TRUE, err |-> ""]

\* _check_http_token
check_http_token(req, stored) ==
    LET token == extract_http_token(req)
    IN IF token = NULL THEN [ok |-> FALSE, err |-> "Missing API token"]
       ELSE IF req.fails THEN [ok |-> FALSE, err |-> "Unauthorized"]
       ELSE IF hash_token(token) \notin stored THEN [ok |-> FALSE, err |-> "Invalid API token"]
       ELSE [ok |-> TRUE, err |-> ""]

\* The request being handled: at is "idle" once it is answered, "handler"
\* while call_next runs; seq and version are last.seq and ctrl.version as the
\* request came in
Checked(stored, n, req, at, status, detail) ==
    [stored |-> stored, n |-> n, req |-> req, at |-> at, status |-> status,
     detail |-> detail, seq |-> last.seq, version |-> ctrl.version]

\* auth_middleware up to call_next or the 401 response
Receive(req) ==
    /\ auth.at = "idle"
    /\ auth.n < MaxHttp
    /\ auth' =
         IF req.path \in ExemptPaths
         THEN Checked(auth.stored, auth.n + 1, req, "handler", 0, "")
         ELSE IF ~check_http_token(req, auth.stored).ok
         THEN Checked(auth.stored, auth.n + 1, req, "idle", 401,
                      check_http_token(req, auth.stored).err)
         ELSE Checked(auth.stored, auth.n + 1, req, "handler", 0, "")
    /\ UNCHANGED <<ledgervars, syncvars, wsvars, playervars, sched, photos, conv>>

\* call_next(request) has not run the handler of the path yet
Admitted(path) ==
    /\ auth.at = "handler"
    /\ auth.req.path = path
    /\ last.seq = auth.seq
    /\ ctrl.version = auth.version

\* call_next(request) returns the handler's response
Respond ==
    /\ auth.at = "handler"
    /\ auth.req.path = "/slot/voucher" => last.seq # auth.seq
    /\ auth.req.path = "/player/play" => ctrl.version # auth.version
    /\ auth' = [auth EXCEPT !.at = "idle",
                            !.status = IF auth.req.path = "/slot/voucher" THEN last.status
                                       ELSE IF auth.req.path = "/health/" THEN 404
                                       ELSE 200]
    /\ UNCHANGED <<ledgervars, syncvars, wsvars, playervars, sched, photos, conv>>

\* The API with the token of BOT_API_TOKEN stored and no request handled
AuthIdle == auth = Checked({hash_token(1)}, 0, NoRequest, "idle", 0, "")

\* Everything outside the ledger, the sync loop and the player channel
OthersIdle ==
    /\ PlayerIdle
    /\ SchedIdle
    /\ PhotosIdle
    /\ ConvIdle
    /\ AuthIdle

\* ---------------------------------------------------------------------
\* Initial store
\* ---------------------------------------------------------------------
\* Up to InitRows rows, each released or issued, with the codes 1, 2, ...
InitVouchers ==
    UNION {{[i \in 1..n |-> IF i \in R THEN ReleasedRow(i) ELSE IssuedRow(i)] :
                R \in SUBSET (1..n)} : n \in 0..InitRows}

\* The prizes 1..k have an inventory row, all with the same count (0 included)
InitInventory == {[p \in 1..k |-> n] : k \in 1..NumPrizes, n \in 0..MaxRemaining}

InitWeight == {[p \in Prizes |-> w] : w \in 0..MaxWeight}

InitStore ==
    /\ vouchers \in InitVouchers
    /\ wins = <<>>
    /\ clock = 1
    /\ last = [seq |-> 0, op |-> "none", arg |-> NULL, user_id |-> NULL,
               total_games |-> 0, status |-> 0, id |-> NULL, prize |-> NULL]
    /\ workers = [w \in Workers |-> IdleWorker]

\* The ledger alone: no inventory
Init ==
    /\ InitStore
    /\ SyncIdle
    /\ WsIdle
    /\ OthersIdle
    /\ inventory = <<>>
    /\ start = [vouchers |-> vouchers, inventory |-> inventory]
    /\ weight = [p \in Prizes |-> 1]
    /\ dialect = "sqlite"

InitDraw ==
    /\ InitStore
    /\ SyncIdle
    /\ WsIdle
    /\ OthersIdle
    /\ inventory \in InitInventory
    /\ start = [vouchers |-> vouchers, inventory |-> inventory]
    /\ weight \in InitWeight
    /\ dialect = "sqlite"

InitConc ==
    /\ InitStore
    /\ SyncIdle
    /\ WsIdle
    /\ OthersIdle
    /\ inventory \in InitInventory
    /\ start = [vouchers |-> vouchers, inventory |-> inventory]
    /\ weight \in InitWeight
    /\ dialect \in {"sqlite", "postgresql"}

\* The handlers of src/api/vouchers.py, one request at a time
Next ==
    \/ \E u \in Users, b \in {NULL} \cup Admins, g \in GamesInputs : create_voucher(u, b, g)
    \/ \E id \in 1..MaxVouchers, k \in CountKinds, n \in 1..MaxGames : set_voucher_count(id, k, n)
    \/ \E id \in 1..MaxVouchers : play_game(id)
    \/ \E c \in {NULL} \cup Codes : mark_voucher_used(c)
    \/ Tick

Spec == Init /\ [][Next]_vars

\* The handlers of src/api/prizes.py, with issue (issued_by omitted) and play,
\* one request at a time; the clock stands still
NextDraw ==
    \/ \E u \in Users, g \in GamesInputs : create_voucher(u, NULL, g)
    \/ \E id \in 1..MaxVouchers : play_game(id)
    \/ \E c \in {NULL} \cup Codes, r \in 0..(PickScale - 1) : draw_prize(c, r)
    \/ \E p \in 0..NumPrizes, n \in -1..MaxRemaining : upsert_remaining(p, n)
    \/ \E p \in 0..NumPrizes : delete_remaining(p)

SpecDraw == InitDraw /\ [][NextDraw]_vars

\* Draws between changes of the prize weights, one request at a time
NextChoice ==
    \/ \E p \in 0..NumPrizes, w \in (-1)..MaxWeight : update_prize(p, w)
    \/ \E c \in {NULL} \cup Codes, r \in 0..(PickScale - 1) : draw_prize(c, r)

SpecChoice == InitDraw /\ [][NextChoice]_vars

\* Concurrent requests, one per worker
NextConc ==
    \/ \E w \in Workers, id \in 1..MaxVouchers : BeginPlay(w, id)
    \/ \E w \in Workers, c \in {NULL} \cup Codes : BeginUsed(w, c)
    \/ \E w \in Workers : CommitPlay(w)
    \/ \E w \in Workers, u \in Users, b \in {NULL} \cup Admins, g \in GamesInputs :
          BeginIssue(w, u, b, g)
    \/ \E w \in Workers : SelectExhausted(w)
    \/ \E w \in Workers : CommitIssue(w)
    \/ \E w \in Workers : InsertIssue(w)
    \/ \E w \in Workers, c \in {NULL} \cup Codes : BeginDraw(w, c)
    \/ \E w \in Workers, r \in 0..(PickScale - 1) : SelectDraw(w, r)
    \/ \E w \in Workers : CommitDraw(w)
    \/ Tick

SpecConc == InitConc /\ [][NextConc]_vars

\* The tracking state of user 1 as an earlier run left it: nothing, one
\* message tracked (in the current or in the old flat format, or beside an
\* entry without code), or a value of unknown shape
InitTracked ==
    {Absent, EncodeCodes(<<Entry(1, 1)>>), Flat(1, 1), Junk,
     EncodeCodes(<<Entry(NULL, 1), Entry(1, 1)>>)}

\* Beside it, a key whose suffix is not a user id may hold a state
InitSettings ==
    {[k \in Keys |-> IF k = 1 THEN t ELSE Absent] : t \in InitTracked}
    \cup {[k \in Keys |-> IF k \in {0, 1} THEN EncodeCodes(<<Entry(1, 1)>>) ELSE Absent]}

\* The messages the entries tracked for the users stand for
Messages(st) ==
    UNION {{Delivered(k, decode_state(st[k])[i].code, decode_state(st[k])[i].message_id) :
               i \in DOMAIN decode_state(st[k])} : k \in Users}

\* The vouchers as the bot starts: none, or voucher 1 in the hands of user 1
InitSyncVouchers == {<<>>, <<IssuedRow(1)>>}

\* The bot starts: the first iteration begins at once
InitSync ==
    /\ InitStore
    /\ vouchers \in InitSyncVouchers
    /\ inventory = <<>>
    /\ start = [vouchers |-> vouchers, inventory |-> inventory]
    /\ weight = [p \in Prizes |-> 1]
    /\ dialect = "sqlite"
    /\ settings \in InitSettings
    /\ sent = Messages(settings)
    /\ nextMsg = 2
    /\ loop = AtPc("list_settings")
    /\ log = <<>>
    /\ faults = <<>>
    /\ seen = [prev |-> <<>>, end |-> <<>>]
    /\ WsIdle
    /\ OthersIdle

\* Other clients send their requests while the loop runs
Polled == Running /\ last.seq < SyncRequests

\* run_voucher_sync beside the requests of other clients of the API
NextSync ==
    \/ ListSettings
    \/ GetState
    \/ Lookup
    \/ DeleteMessage
    \/ Persist
    \/ ListVouchers
    \/ GetPrev
    \/ SendPhoto
    \/ Record
    \/ Wake
    \/ Hang
    \/ Cancel
    \/ \E u \in Users, g \in GamesInputs : Polled /\ create_voucher(u, NULL, g)
    \/ \E id \in Ids(vouchers) : Polled /\ play_game(id)
    \/ \E id \in Ids(vouchers) : Polled /\ set_voucher_count(id, "decrease", 1)

SpecSync == InitSync /\ [][NextSync]_vars

\* The start where voucher 1 is in the hands of user 1 and no message has been
\* sent yet
InitPoll ==
    /\ InitSync
    /\ vouchers = <<IssuedRow(1)>>
    /\ settings = [k \in Keys |-> Absent]

\* asyncio runs the task whenever it can take a step
SpecSyncFair == InitPoll /\ [][NextSync]_vars /\ WF_vars(LoopStep)

\* The API starts with no voucher and no client connected
InitWs ==
    /\ InitStore
    /\ vouchers = <<>>
    /\ inventory = <<>>
    /\ start = [vouchers |-> vouchers, inventory |-> inventory]
    /\ weight = [p \in Prizes |-> 1]
    /\ dialect = "sqlite"
    /\ SyncIdle
    /\ WsIdle
    /\ OthersIdle

\* The handlers of /ws/player and the player endpoints on one event loop
NextWs ==
    \/ \E s \in Sockets : Accept(s)
    \/ \E s \in Sockets : Join(s)
    \/ \E s \in Sockets : Snapshot(s)
    \/ \E s \in Sockets : Close(s)
    \/ \E s \in Sockets : Leave(s)
    \/ \E by \in Sockets \cup {Http}, playing \in BOOLEAN : BeginBroadcast(by, playing)
    \/ BroadcastSend
    \/ EndBroadcast

SpecWs == InitWs /\ [][NextWs]_vars

\* The API starts with some tracks stored and no client connected
InitPlayer ==
    /\ InitStore
    /\ vouchers = <<>>
    /\ inventory = <<>>
    /\ start = [vouchers |-> vouchers, inventory |-> inventory]
    /\ weight = [p \in Prizes |-> 1]
    /\ dialect = "sqlite"
    /\ SyncIdle
    /\ WsIdle
    /\ deck = [index |-> Unset, playlist |-> <<>>]
    /\ tracks \in SUBSET TrackIds
    /\ reply = NoReply
    /\ SchedIdle
    /\ PhotosIdle
    /\ ConvIdle
    /\ AuthIdle

\* The operations of the player, each under ctrl.lock from start to end
NextPlayer ==
    \/ \E s \in Sockets : WsConnect(s)
    \/ \E s \in Sockets : WsDisconnect(s)
    \/ \E s \in Sockets : WsRefresh(s)
    \/ \E s \in Sockets : WsPlay(s)
    \/ \E s \in Sockets : WsPause(s)
    \/ \E s \in Sockets : WsNext(s)
    \/ \E s \in Sockets : WsPrev(s)
    \/ \E s \in Sockets, x \in IndexInputs : WsSetIndex(s, x)
    \/ player_play
    \/ player_pause
    \/ player_shuffle
    \/ player_prev
    \/ player_next
    \/ \E t \in TrackIds : EditTracks(t)

SpecPlayer == InitPlayer /\ [][NextPlayer]_vars

\* The requests a client can send
HttpRequests ==
    {HttpRequest(path, bearer, xapi, query, fails) :
        path \in Paths, bearer \in {NULL} \cup Tokens, xapi \in {NULL} \cup Tokens,
        query \in {NULL} \cup Tokens, fails \in BOOLEAN}

\* HTTP requests, one at a time, through auth_middleware to their handlers
NextAuth ==
    \/ \E req \in HttpRequests : Receive(req)
    \/ \E u \in Users, g \in GamesInputs :
          Admitted("/slot/voucher") /\ create_voucher(u, NULL, g)
    \/ Admitted("/player/play") /\ player_play
    \/ Respond

SpecAuth == Init /\ [][NextAuth]_vars

\* The tracks-closure scheduler beside the admin and the clock
NextClosure ==
    \/ Decide
    \/ SendWarning
    \/ MarkAnnounced
    \/ SchedWake
    \/ SchedTick
    \/ \E t \in 1..MaxNow : tracks_close_confirm(t)

SpecClosure == Init /\ [][NextClosure]_vars

\* Group photos handled by concurrent handlers
NextPhotos ==
    \/ \E h \in PhotoHandlers, uid \in UniqueIds : OnGroupPhoto(h, uid)
    \/ \E h \in PhotoHandlers : GetFile(h)
    \/ \E h \in PhotoHandlers : MakeTmpDir(h)
    \/ \E h \in PhotoHandlers : Download(h)
    \/ \E h \in PhotoHandlers : Upload(h)

SpecPhotos == Init /\ [][NextPhotos]_vars

\* The users' messages and button presses, and the timeouts
NextConv ==
    \/ \E u \in ChatUsers, args \in BOOLEAN, o \in QueryOutcomes, id \in SpotifyIds :
          cmd_track(u, args, o, id)
    \/ \E u \in ChatUsers, closed \in BOOLEAN : menu_add_track(u, closed)
    \/ \E u \in ChatUsers, r \in BOOLEAN : command_while_waiting(u, r)
    \/ \E u \in ChatUsers, o \in QueryOutcomes, id \in SpotifyIds : got_query(u, o, id)
    \/ \E u \in ChatUsers : cancel(u)
    \/ \E u \in ChatUsers, id \in SpotifyIds, o \in ConfirmOutcomes : confirm_add(u, id, o)
    \/ \E u \in ChatUsers : StateTimeout(u)

SpecConv == Init /\ [][NextConv]_vars

\* ---------------------------------------------------------------------
\* Properties
\* ---------------------------------------------------------------------
Handled(op) == last'.seq = last.seq + 1 /\ last'.op = op

OthersUnchanged(id) ==
    /\ Len(vouchers') = Len(vouchers)
    /\ \A j \in Ids(vouchers) \ {id} : vouchers'[j] = vouchers[j]

AllDone(op) == \A w \in Workers : workers[w].pc = "done" /\ workers[w].op = op

WithStatus(status) == {w \in Workers : workers[w].status = status}

\* C1: in every reachable state of the ledger (issue, play by id, redeem by
\* code, total_games adjustments) every voucher has
\* 0 <= use_count <= total_games.
UseCountWithinTotal ==
    \A i \in Ids(vouchers) :
        0 <= vouchers[i].use_count /\ vouchers[i].use_count <= vouchers[i].total_games

\* C2: when every worker has run play_game on the same voucher v, and v
\* started with k = total_games - use_count games left, k < NumWorkers, then
\* exactly k requests were answered 200, the other NumWorkers - k were
\* answered 400, and v ends with use_count = total_games.
ConcurrentPlaysSpendCapacity ==
    \A v \in Ids(start.vouchers) :
        LET k == start.vouchers[v].total_games - start.vouchers[v].use_count
        IN (AllDone("play") /\ (\A w \in Workers : workers[w].vid = v) /\ k < NumWorkers)
           => /\ Cardinality(WithStatus(200)) = k
              /\ Cardinality(WithStatus(400)) = NumWorkers - k
              /\ vouchers[v].use_count = vouchers[v].total_games

\* C3: a play (by id or by code), handled alone, answers 404 and changes no
\* voucher when the voucher does not exist; answers 400 and changes no
\* voucher when use_count >= total_games; otherwise answers 200 and raises
\* that voucher's use_count by exactly 1, leaving its code, user, issuer,
\* total_games and every other voucher as they were.
PlayTarget ==
    IF last'.op = "play" THEN {i \in Ids(vouchers) : i = last'.arg}
    ELSE {i \in Ids(vouchers) : vouchers[i].code = last'.arg}

ConcurrentIssuesGetDistinctVouchers ==
    \A a, b \in Workers :
        (/\ a # b
         /\ workers[a].pc = "done" /\ workers[a].op = "issue" /\ workers[a].status = 201
         /\ workers[b].pc = "done" /\ workers[b].op = "issue" /\ workers[b].status = 201
         /\ workers[a].in.user_id # workers[b].in.user_id)
        => /\ workers[a].vid # workers[b].vid
           /\ vouchers[workers[a].vid].user_id = workers[a].in.user_id
           /\ vouchers[workers[b].vid].user_id = workers[b].in.user_id

\* The inventory count of a prize, 0 when it has no row
Remaining(inv, p) == IF p \in DOMAIN inv THEN inv[p] ELSE 0

ConcurrentDrawsShareTheLastUnit ==
    (/\ start.inventory = [p \in {1} |-> 1]
     /\ AllDone("draw")
     /\ \A a, b \in Workers : a # b => workers[a].vid # workers[b].vid
     /\ \A w \in Workers :
           /\ workers[w].vid \in Ids(start.vouchers)
           /\ start.vouchers[workers[w].vid].used_at = NULL
           /\ start.vouchers[workers[w].vid].user_id # NULL)
    => /\ Cardinality(WithStatus(200)) = 1
       /\ Cardinality(WithStatus(409)) = NumWorkers - 1
       /\ \A w \in WithStatus(200) : workers[w].prize = 1
       /\ Len(wins) = 1
       /\ 1 \notin DOMAIN inventory

\* C7: every inventory row has remaining >= 0 in every state; no prize
\* with remaining 0 or without a row is among the draw candidates; and the
\* prize of a draw answered 200 had a row with remaining > 0.
DrawnPrizesAreInStock ==
    [][/\ \A p \in DOMAIN inventory : inventory[p] >= 0
       /\ \A p \in DOMAIN inventory' : inventory'[p] >= 0
       /\ \A p \in Prizes : Remaining(inventory, p) = 0 => p \notin Candidates(inventory)
       /\ (Handled("draw") /\ last'.status = 200)
            => Remaining(inventory, last'.prize) > 0]_vars

\* C7 witness: a draw succeeded while another prize had a row with
\* remaining = 0.
DrawnBesideAnEmptyRow ==
    /\ last.op = "draw"
    /\ last.status = 200
    /\ \E p \in DOMAIN inventory : p # last.prize /\ inventory[p] = 0

\* C8: a draw on an assigned voucher, with prizes in stock, is answered 200
\* and raises use_count by 1 when use_count < total_games, and is answered
\* 409 when use_count >= total_games.
DrawSpendsOneGame ==
    [][(/\ Handled("draw")
        /\ last'.id \in Ids(vouchers)
        /\ vouchers[last'.id].user_id # NULL
        /\ \E p \in DOMAIN inventory : inventory[p] > 0)
       => IF vouchers[last'.id].use_count < vouchers[last'.id].total_games
          THEN /\ last'.status = 200
               /\ vouchers'[last'.id].use_count = vouchers[last'.id].use_count + 1
          ELSE last'.status = 409]_vars

\* C9: when no released voucher with games left exists and the only exhausted
\* voucher v is one a user A played to exhaustion, an issue for a different
\* user B answers with v itself: same id and code, assigned to B, use_count 0,
\* used_at cleared, total_games as requested, and no row is added.
ExhaustedVoucherIsRecycled ==
    [][\A v \in Ids(vouchers) :
        (/\ Handled("issue")
         /\ AvailableWithGames(vouchers) = {}
         /\ Exhausted(vouchers) = {v}
         /\ vouchers[v].use_count = vouchers[v].total_games
         /\ vouchers[v].used_at # NULL
         /\ vouchers[v].user_id # NULL
         /\ vouchers[v].user_id # last'.user_id)
        => /\ last'.status = 201
           /\ last'.id = v
           /\ Len(vouchers') = Len(vouchers)
           /\ vouchers'[v].code = vouchers[v].code
           /\ vouchers'[v].user_id = last'.user_id
           /\ vouchers'[v].use_count = 0
           /\ vouchers'[v].used_at = NULL
           /\ vouchers'[v].total_games = last'.total_games
           /\ OthersUnchanged(v)]_vars

\* C9 witness: from an empty store, the third request is an issue that is
\* answered with the only row, now held by user 2 with a fresh count.
RecycledForSecondUser ==
    /\ start.vouchers = <<>>
    /\ last.seq = 3
    /\ last.op = "issue"
    /\ last.status = 201
    /\ last.id = 1
    /\ Len(vouchers) = 1
    /\ vouchers[1].user_id = 2
    /\ vouchers[1].use_count = 0
    /\ vouchers[1].used_at = NULL

\* used_at of a is not later than used_at of b, a voucher never used
\* (used_at NULL) counting as the oldest
NotUsedLater(a, b) == a = NULL \/ (b # NULL /\ a <= b)

\* C10: an issue answered 201 follows the priority: when a released voucher
\* with games left exists, the oldest-created one is reassigned; otherwise,
\* when an exhausted voucher exists, the one with the oldest used_at (never
\* used first) is recycled; a row is added, with a code no existing row has,
\* only when neither exists. An assigned voucher with games left is never
\* changed by an issue.
IssuePriority ==
    [][Handled("issue") =>
        /\ \A i \in Ids(vouchers) :
              (vouchers[i].user_id # NULL /\ vouchers[i].use_count < vouchers[i].total_games)
                  => vouchers'[i] = vouchers[i]
        /\ IF AvailableWithGames(vouchers) # {}
           THEN /\ last'.status = 201
                /\ last'.id \in AvailableWithGames(vouchers)
                /\ \A j \in AvailableWithGames(vouchers) :
                      vouchers[last'.id].created_at <= vouchers[j].created_at
                /\ vouchers'[last'.id].user_id = last'.user_id
                /\ OthersUnchanged(last'.id)
           ELSE IF Exhausted(vouchers) # {}
           THEN /\ last'.status = 201
                /\ last'.id \in Exhausted(vouchers)
                /\ \A j \in Exhausted(vouchers) :
                      NotUsedLater(vouchers[last'.id].used_at, vouchers[j].used_at)
                /\ vouchers'[last'.id].user_id = last'.user_id
                /\ OthersUnchanged(last'.id)
           ELSE last'.status = 201 =>
                /\ Len(vouchers') = Len(vouchers) + 1
                /\ last'.id = Len(vouchers')
                /\ SubSeq(vouchers', 1, Len(vouchers)) = vouchers
                /\ vouchers'[last'.id].code \notin UsedCodes(vouchers)
                /\ vouchers'[last'.id].user_id = last'.user_id]_vars

\* C10 witness: row 2 was recycled while row 1, used later, stays exhausted.
OlderUsedRecycledFirst ==
    /\ last.op = "issue"
    /\ last.status = 201
    /\ last.id = 2
    /\ Len(vouchers) = 2
    /\ vouchers[1].use_count >= vouchers[1].total_games
    /\ vouchers[1].used_at = 2

\* ---------------------------------------------------------------------
\* Properties of the voucher sync loop
\* ---------------------------------------------------------------------
\* The entries tracked for a user, as the loop decodes them
Tracked(k) == decode_state(settings[k])

\* The step is a lookup the API answered
LookedUp == loop.pc = "lookup" /\ loop' # loop /\ faults' = faults

DeleteCalls(events, user, msg) ==
    {i \in DOMAIN events : /\ events[i].op = "delete_message"
                           /\ events[i].user = user
                           /\ events[i].msg = msg}

SendCalls(events, user, code) ==
    {i \in DOMAIN events : /\ events[i].op = "send_photo"
                           /\ events[i].user = user
                           /\ events[i].code = code}

\* The voucher of the code is in the hands of the user with games left
ActiveFor(u, c) ==
    \E i \in Ids(vouchers) : /\ vouchers[i].code = c
                             /\ vouchers[i].user_id = u
                             /\ ~NoRemainingGames(vouchers[i])

\* The user has a record for the code that holds a message the chat delivered
TrackedFor(u, c) ==
    \E i \in DOMAIN Tracked(u) :
        /\ Tracked(u)[i].code = c
        /\ Delivered(u, c, Tracked(u)[i].message_id) \in sent

\* C11: in the cleanup pass, when the lookup of a tracked entry's voucher (by
\* code and user) finds it with use_count >= total_games, the loop calls
\* delete_message for the entry's message once, and whether that call returns
\* or raises, the entry is left out of the state written back for the user.
ExhaustedRecordRetired ==
    [][/\ (LookedUp /\ \E i \in VoucherLookup(vouchers, loop.entry.code, loop.key) :
                          NoRemainingGames(vouchers[i]))
            => loop'.pc = "await_delete"
       /\ (loop.pc = "await_delete" /\ loop'.pc \notin {"await_delete", "cancelled"})
            => /\ Cardinality(DeleteCalls(log', loop.key, loop.entry.message_id)) = 1
               /\ \A i \in DOMAIN loop'.remaining : loop'.remaining[i] # loop.entry
       /\ (loop.pc = "persist" /\ settings' # settings)
            => decode_state(settings'[loop.key]) = loop.remaining
      ]_vars

\* C12: in the cleanup pass, when the lookup of a tracked entry's voucher finds
\* it with use_count < total_games, no delete_message call is made for it, the
\* entry is kept, and the state written back for the user is a set (not a
\* delete) that holds the entry with the message id it had.
ActiveRecordKept ==
    [][/\ (LookedUp /\ VoucherLookup(vouchers, loop.entry.code, loop.key) # {}
                    /\ \A i \in VoucherLookup(vouchers, loop.entry.code, loop.key) :
                          ~NoRemainingGames(vouchers[i]))
            => /\ loop'.remaining = Append(loop.remaining, loop.entry)
               /\ loop'.pc # "await_delete"
               /\ log' = log
               /\ \E i \in DOMAIN Tracked(loop.key) : Tracked(loop.key)[i] = loop.entry
       /\ (loop.pc = "persist" /\ loop'.pc # "persist" /\ loop.remaining # <<>>)
            => /\ log'[Len(log')].op = "set"
               /\ log'[Len(log')].ok => settings'[loop.key] = EncodeCodes(loop.remaining)
               /\ ~log'[Len(log')].ok => settings' = settings
      ]_vars

\* The cleanup pass ran without failure, no request in between, and wrote the
\* one entry of the active voucher of user 1 back as it was
ActiveRecordSurvives ==
    /\ loop.pc = "list_vouchers"
    /\ faults = <<>>
    /\ last.seq = 0
    /\ ActiveFor(1, 1)
    /\ log = <<Event("set", 1, NULL, 0, TRUE)>>
    /\ Tracked(1) = <<Entry(1, 1)>>
    /\ sent = {Delivered(1, 1, 1)}

\* C13: when an iteration has run to its end, no call has ever failed, and
\* the API has handled no request since the end of the iteration before it (so
\* vouchers and tracking states are as that iteration left them), the
\* iteration has made no chat call (send_photo, delete_message) and no store
\* write (set, delete).
UnchangedIterationIsQuiet ==
    (loop.pc = "sleep" /\ faults = <<>> /\ seen.prev # <<>> /\ seen.end = seen.prev)
        => log = <<>>

\* C14: in every reachable state, the entries tracked for a user hold each
\* voucher code at most once.
OneRecordPerVoucher ==
    \A k \in Users : \A i, j \in DOMAIN Tracked(k) :
        Tracked(k)[i].code = Tracked(k)[j].code => i = j

\* A second voucher of a user was sent and recorded beside the first one, and
\* a later iteration has found both recorded
SecondVoucherTracked ==
    \E k \in Users :
        /\ Len(Tracked(k)) = 2
        /\ \A i \in DOMAIN Tracked(k) : ActiveFor(k, Tracked(k)[i].code)
        /\ loop.pc = "sleep"
        /\ seen.prev # <<>>
        /\ seen.end = seen.prev

LoopNeverDies ==
    /\ [](loop.pc # "dead")
    /\ \/ []<>(loop.pc = "sleep")
       \/ <>[](loop.pc = "cancelled")
       \/ <>[](loop.hung)

\* settings.get raised outside every inner try, the iteration was given up,
\* and the next iteration has begun
NextIterationAfterCrash ==
    /\ faults = <<"get">>
    /\ seen = [prev |-> <<>>, end |-> <<>>]
    /\ loop.pc = "get_state"

\* C17: a chat call (send_photo or delete_message) that never returns is
\* given up after a bounded wait: the loop reaches its sleep.
HungCallIsAbandoned ==
    loop.hung ~> loop.pc = "sleep"

\* C18: once the loop is cancelled, every entry tracked holds the id of a
\* message the chat delivered, and, no store write having failed, every
\* message delivered for a voucher that is still active in the hands of its
\* user has an entry for that voucher.
CancelLeavesNoOrphan ==
    loop.pc = "cancelled" =>
        /\ \A u \in Users : \A i \in DOMAIN Tracked(u) :
              Delivered(u, Tracked(u)[i].code, Tracked(u)[i].message_id) \in sent
        /\ \A d \in sent :
              (faults = <<>> /\ ActiveFor(d.user, d.code))
                  => \E i \in DOMAIN Tracked(d.user) : Tracked(d.user)[i].code = d.code

\* ---------------------------------------------------------------------
\* Properties of the player channel
\* ---------------------------------------------------------------------
Range(q) == {q[i] : i \in DOMAIN q}

\* C19: a broadcast tries each client that is in ctrl.clients when it starts
\* exactly once, also after a send has raised; when it ends, ctrl.clients is
\* the set it started with minus exactly the clients whose send raised; and no
\* broadcast tries a client that an earlier broadcast has removed.
BroadcastReachesEveryClient ==
    /\ [][(bc.on /\ ~bc'.on)
            => /\ Range(bc.tried) = bc.start
               /\ Len(bc.tried) = Cardinality(bc.start)
               /\ ctrl.clients = bc.start
               /\ ctrl'.clients = bc.start \ bc.dead
               /\ bc.dead = {s \in bc.start : socks'[s].removed}]_vars
    /\ [][(bc.on /\ bc'.on /\ bc'.tried # bc.tried)
            => /\ bc'.tried = Append(bc.tried, Head(bc.pending))
               /\ ~socks[Head(bc.pending)].removed
               /\ (Head(bc.pending) \in bc'.dead) = (socks[Head(bc.pending)].peer = "closed")
               /\ (Head(bc.pending) \notin bc'.dead) =>
                     Len(socks'[Head(bc.pending)].inbox) = Len(socks[Head(bc.pending)].inbox) + 1]_vars
    /\ [](\A s \in Sockets : socks[s].removed => s \notin ctrl.clients)

\* A broadcast over two clients has ended: the send to the first one raised,
\* the second one received the state, and only the first one was removed
PartialFailureBroadcast ==
    /\ ~bc.on
    /\ Cardinality(bc.start) = 2
    /\ Len(bc.tried) = 2
    /\ bc.dead = {bc.tried[1]}
    /\ ctrl.clients = {bc.tried[2]}
    /\ socks[bc.tried[2]].inbox # <<>>
    /\ socks[bc.tried[2]].inbox[Len(socks[bc.tried[2]].inbox)].call = "broadcast"

\* C20: the first message a client receives is the state payload its own
\* handler sent on connect, it holds the version and playing flag ctrl had at
\* that send, and every message after it holds a later version.
SnapshotComesFirst ==
    /\ [](\A s \in Sockets :
            socks[s].inbox # <<>> =>
                /\ socks[s].inbox[1].call = "connect"
                /\ socks[s].inbox[1].payload.type = "state"
                /\ \A i \in 2..Len(socks[s].inbox) :
                      socks[s].inbox[i].payload.version > socks[s].inbox[1].payload.version)
    /\ [][\A s \in Sockets :
            (socks[s].inbox = <<>> /\ socks'[s].inbox # <<>>)
                => socks'[s].inbox = <<Received(player_state_payload(ctrl), "connect")>>]_vars

\* A client connected after another client's operation had been broadcast:
\* its first message is the state of that moment (version 3, playing), and the
\* next operation was broadcast to both
ConnectedAfterAnOperation ==
    \E s, t \in Sockets :
        /\ s # t
        /\ Len(socks[t].inbox) = 3
        /\ socks[t].inbox[2].call = "broadcast"
        /\ Len(socks[s].inbox) = 2
        /\ socks[s].inbox[1] =
              Received([type |-> "state", version |-> 3, playing |-> TRUE], "connect")
        /\ socks[s].inbox[2].call = "broadcast"

\* ---------------------------------------------------------------------
\* Properties of the player
\* ---------------------------------------------------------------------
\* C21: a set_index whose "index" is not a JSON integer, or is an integer
\* outside 0..len(playlist)-1, answers an error to its caller only and leaves
\* index, playing, playlist and version as they were, with no broadcast; a
\* set_index with an integer inside the range sets the index to that integer.
SeekValidated ==
    [][reply'.op.name = "set_index" =>
          LET x == reply'.op.index
          IN IF x.kind = "int" /\ 0 <= x.n /\ x.n < Len(deck.playlist)
             THEN deck' = [deck EXCEPT !.index = x.n]
             ELSE /\ deck' = deck
                  /\ ctrl' = ctrl
                  /\ reply'.type = "error"
                  /\ reply'.to = {}]_vars

\* C22: with n > 0 tracks and the index at i, next and prev of a WebSocket
\* client stop at n - 1 and at 0, those of the HTTP endpoints go from n - 1 to
\* 0 and from 0 to n - 1; an unset index becomes 0 for both callers; with no
\* track the index is left alone.  The playlist is never changed.
NextPrevClampOrWrap ==
    [][reply'.op.name \in {"next", "prev"} =>
          LET n == Len(deck.playlist)
              i == deck.index
              up == reply'.op.name = "next"
              wrap == reply'.by = Http
          IN /\ deck'.playlist = deck.playlist
             /\ deck'.index =
                  IF n = 0 THEN i
                  ELSE IF i = Unset THEN 0
                  ELSE IF up /\ i = n - 1 THEN (IF wrap THEN 0 ELSE n - 1)
                  ELSE IF up THEN i + 1
                  ELSE IF i = 0 THEN (IF wrap THEN n - 1 ELSE 0)
                  ELSE i - 1]_vars

\* POST /player/next on the last of three tracks has gone to the first one
WrappedToFirst ==
    /\ reply.op.name = "next"
    /\ reply.by = Http
    /\ reply.was = 2
    /\ Len(deck.playlist) = 3
    /\ deck.index = 0

\* C27: in every reachable state the index is unset or 0 <= index <
\* len(playlist); it is unset whenever the playlist is empty.
IndexWithinPlaylist ==
    deck.index = Unset \/ (0 <= deck.index /\ deck.index < Len(deck.playlist))

\* A refresh has found the index on the third track of a playlist that the
\* table no longer holds: one track is left and the index is on it
ReloadShrankPlaylist ==
    /\ reply.op.name = "refresh"
    /\ reply.was = 2
    /\ Len(deck.playlist) = 1
    /\ deck.index = 0

\* The tokens a request carries, wherever it carries them
Carried(req) == {req.bearer, req.xapi, req.query} \ {NULL}

\* A request that must be refused: not the health check, not the Spotify
\* callback, and no stored token in it, or the store failing at the lookup
Unauthorised(req) ==
    /\ req.path \notin {"/health", "/api/health", "/spotify/callback", "/api/spotify/callback"}
    /\ \/ \A t \in Carried(req) : hash_token(t) \notin auth.stored
       \/ req.fails

\* C23: a request to a non-exempt path without a stored token, or whose token
\* lookup fails, is answered 401 without reaching its handler, and while it
\* is the latest request no voucher, prize, setting or player state changes
UnauthorisedIsRefused ==
    /\ [](auth.n > 0 /\ Unauthorised(auth.req) => auth.at = "idle" /\ auth.status = 401)
    /\ [][auth'.n > 0 /\ Unauthorised(auth'.req)
            => UNCHANGED <<ledgervars, settings, ctrl, playervars>>]_vars

RefusedOnStoreError ==
    /\ auth.n = MaxHttp
    /\ auth.req.fails
    /\ auth.req.bearer = 1
    /\ auth.req.path = "/slot/voucher"
    /\ auth.status = 401
    /\ Len(vouchers) = 1


\* The number of wins recorded for prize p
WinsOf(w, p) == Cardinality({k \in DOMAIN w : w[k].prize_id = p})

\* Draws handled one at a time: a draw answered 200 takes exactly 1 from the
\* drawn prize's row, deleting the row at 0, and leaves every other row alone;
\* and every step that is not an admin inventory edit keeps, for each prize,
\* remaining (0 without a row) plus the wins recorded for it.
DrawTakesExactlyOne ==
    [][/\ (Handled("draw") /\ last'.status = 200) =>
            /\ Remaining(inventory', last'.prize) = Remaining(inventory, last'.prize) - 1
            /\ last'.prize \in DOMAIN inventory' <=> inventory[last'.prize] > 1
            /\ \A p \in Prizes \ {last'.prize} :
                 /\ p \in DOMAIN inventory' <=> p \in DOMAIN inventory
                 /\ p \in DOMAIN inventory => inventory'[p] = inventory[p]
            /\ Len(wins') = Len(wins) + 1
       /\ ~(Handled("upsert") \/ Handled("delete")) =>
            \A p \in Prizes :
                Remaining(inventory', p) + WinsOf(wins', p)
                  = Remaining(inventory, p) + WinsOf(wins, p)]_vars

\* The second draw took the last unit of a prize, whose row is
\* gone, while the row of another prize stays.
LastUnitDrawn ==
    /\ last.op = "draw"
    /\ last.status = 200
    /\ Len(wins) = 2
    /\ last.prize \notin DOMAIN inventory
    /\ \E p \in DOMAIN inventory : inventory[p] > 0


\* C24: with no admin inventory edit (the workers only issue, play and draw),
\* for each prize the initial remaining equals the current remaining (0
\* without a row) plus the number of wins recorded for it: every draw
\* answered 200 took exactly 1 from exactly the drawn prize.
InventoryConserved ==
    \A p \in Prizes :
        Remaining(start.inventory, p) = Remaining(inventory, p) + WinsOf(wins, p)


\* The total weight of the draw candidates
TotalWeight(w, inv) ==
    LET RECURSIVE Sum(_)
        Sum(S) == IF S = {} THEN 0
                  ELSE LET p == CHOOSE q \in S : TRUE
                       IN PairWeight(w, inv, p) + Sum(S \ {p})
    IN Sum(Candidates(inv))

\* C28: the prize of a draw answered 200, which is what _weighted_choice
\* returned, is one of the candidates, and when the total weight is positive
\* its weight (prize weight times remaining, clamped at 0) is not 0, for
\* every value of the random draw including 0.
WeightedChoiceSkipsZeroWeight ==
    [][(Handled("draw") /\ last'.status = 200) =>
          /\ last'.prize \in Candidates(inventory)
          /\ TotalWeight(weight, inventory) > 0
               => PairWeight(weight, inventory, last'.prize) > 0]_vars


\* The calls of the loop that go to the store
StoreCalls == {"list_settings", "get", "lookup", "persist", "record", "list_vouchers"}

\* C25: a voucher lookup that fails with an API error keeps the entry, as it
\* is, among the remaining ones and attempts no delete; and when only calls
\* to the store fail and no voucher changes, no tracked message is forgotten
\* and no voucher is sent to its user a second time.
StoreOutageForgetsNothing ==
    /\ [][/\ (loop.pc = "lookup" /\ Len(faults') = Len(faults) + 1) =>
                /\ loop'.remaining = Append(loop.remaining, loop.entry)
                /\ loop'.pc # "await_delete"
                /\ UNCHANGED <<settings, log, sent>>
          /\ \A k \in Users : \A i \in DOMAIN Tracked(k) :
                (/\ last'.seq = 0
                 /\ VoucherLookup(vouchers, Tracked(k)[i].code, k) # {}
                 /\ \A j \in VoucherLookup(vouchers, Tracked(k)[i].code, k) :
                        ~BotExhausted(vouchers[j]))
                => Tracked(k)[i] \in Range(decode_state(settings'[k]))]_vars
    /\ []((last.seq = 0 /\ \A i \in DOMAIN faults : faults[i] \in StoreCalls) =>
             \A m, n \in sent : m.user = n.user /\ m.code = n.code => m.msg = n.msg)

\* C26: the warnings for one close time, sent while the close time was not
\* changed to another value, all come from one iteration of the scheduler,
\* at a time t with T - 15 min <= t < T, whatever send or settings write
\* fails.
WarnedOncePerCloseTime ==
    \A a, b \in sched.warnings :
        /\ a.for - Lead <= a.at /\ a.at < a.for
        /\ (a.for = b.for /\ a.changes = b.changes) => a.iter = b.iter


\* C29: an id is in the in-flight set only while a handler that has not
\* finished is working on it, so that once every handler of a photo has
\* finished, by whatever exit, the id is out of the set; and an id is among
\* the processed ones only if an upload of it succeeded.
InflightOnlyWhileHandled ==
    /\ \A uid \in photos.inflight :
          \E h \in PhotoHandlers :
              photos.h[h].uid = uid /\ photos.h[h].pc \notin {"idle", "done"}
    /\ \A i \in DOMAIN photos.processed : photos.processed[i] \in photos.uploaded


\* C30: whenever a user's conversation is in waiting_query or waiting_confirm
\* once a handler has finished, a timeout task expecting that state is armed
\* for the user, on every handler path.
WaitingHasTimeout ==
    \A u \in ChatUsers :
        conv[u].state \in WaitingStates => conv[u].timer = conv[u].state

====
